---- MODULE Spec2Model ----
(***************************************************************************)
(* Verification model of the attendance dashboard.                         *)
(*                                                                         *)
(* Part 1: the request cache and in-flight coalescing of src/lib/gasApi.ts *)
(* (five remote reads in front of one fetch).                              *)
(* Part 2: the query / page-list / ranking state of the dashboard page.    *)
(*                                                                         *)
(* Strings are sequences of one-character strings, so that trimming and    *)
(* key concatenation are computed as the code computes them.               *)
(***************************************************************************)
EXTENDS Integers, Sequences, FiniteSets, Bags, TLC

VARIABLES
    configured,   \* getBaseUrl() returns a non-empty base (VITE_GAS_URL set)
    now,          \* Date.now(), in ms
    cache,        \* the four *_CACHE maps: op -> (key -> [ts, value])
    inflight,     \* the five *_INFLIGHT maps: op -> (key -> request number)
    reqs,         \* every fetch() issued so far, in order
    calls         \* every call of an exported read so far, in order

apiVars == <<configured, now, cache, inflight, reqs, calls>>

VARIABLES
    user,            \* getUser(): [name, isAdmin, warehouseKey]
    query,           \* useState query: [warehouse, page]
    status,          \* idle | loading | success | error | empty
    result,          \* useState result: Null or the rows of one query
    error,           \* useState error
    availablePages,  \* useState availablePages, with the warehouse they are of
    attAll,          \* useState attAll with attWorstSourcePage
    PAGES_CACHE,     \* the module-level page-list cache (fresh entries)
    worstTimer,      \* the 450 ms timer of the ranking effect is armed
    pending,         \* the async functions of the page that await a remote read
    acts             \* number of user actions so far

dashVars == <<user, query, status, result, error, availablePages, attAll,
              PAGES_CACHE, worstTimer, pending, acts>>

VARIABLES
    rowPage,        \* the sheet a row was queried from (query.page)
    rowDateCols,    \* payload.dateCols is a non-empty array
    rowAtt,         \* the row's att array: absent | empty | present
    pc,             \* calc | query | done: where the row's summary stands
    ci,             \* number of date columns the running loop has visited
    shouldDays,     \* calcAttendance: let shouldDays
    actDays,        \* calcAttendance: let actDays
    expected,       \* doQuery: let expected
    attended,       \* doQuery: let attended
    cell,           \* the date cell the last loop step visited
    rowAttendance   \* row._attendance: Null or [rate, attended, expected, status]

rowVars == <<rowPage, rowDateCols, rowAtt, pc, ci, shouldDays, actDays,
             expected, attended, cell, rowAttendance>>

VARIABLES
    payload,         \* the GasPayload a query of the sheet returned
    sheetPage,       \* query.page of that query
    isAdminView,     \* the user of the page is an admin
    gasHeaders,      \* useState gasHeaders
    gasHeadersISO,   \* useState gasHeadersISO
    gasDateCols,     \* useState gasDateCols
    dateList,        \* useMemo dateList: recomputed when its inputs are set
    gasRows,         \* result.rows: the normalized rows with their _attendance
    attAllList,      \* the list refreshWorstAttendance passes to setAttAll
    attEndDate,      \* useState attEndDate
    attName,         \* useState attName
    attSingleBuilt,  \* useState attSingleBuilt
    attAllBuilt,     \* useState attAllBuilt
    sheetPc          \* fetched | queried: doQuery has set its state

sheetVars == <<payload, sheetPage, isAdminView, gasHeaders, gasHeadersISO,
               gasDateCols, dateList, gasRows, attAllList, attEndDate, attName,
               attSingleBuilt, attAllBuilt, sheetPc>>

VARIABLES
    normInput,       \* the arguments of one call of gasPayloadToRows
    normOut,         \* Null before the call returns, Some(rows) after
    leaveInput,      \* the props and the state of one LeaveStatPanel
    leaveData,       \* Null before its memo data is evaluated, Some(data) after
    keyInput,        \* a read and the arguments of two calls of it
    keyOut           \* Null before the calls build their ck, Some(<<ck, ck>>) after

fnVars == <<normInput, normOut, leaveInput, leaveData, keyInput, keyOut>>

attVars == <<rowVars, sheetVars, fnVars>>

vars == <<apiVars, dashVars, attVars>>

(***************************************************************************)
(* Bounds of the model                                                     *)
(***************************************************************************)
MaxCalls == 3
MaxTicks == 5
MaxActs == 2
MaxCols == 10
MaxRows == 2
MaxStaff == 6

(***************************************************************************)
(* Program constants                                                       *)
(***************************************************************************)
SHEETS_CACHE_MS == 5 * 60000
QUERY_CACHE_MS == 2 * 60000
WAREHOUSE_ID_CACHE_MS == 10 * 60000
FIND_WAREHOUSE_BY_NAME_CACHE_MS == 10 * 60000

\* Date.now() is observed at multiples of the shortest TTL
TickMs == QUERY_CACHE_MS

Ops == {"getSheets", "querySheet", "getWarehouseId", "findWarehouseByName", "verifyLogin"}
CachedOps == {"getSheets", "querySheet", "getWarehouseId", "findWarehouseByName"}

TTL(op) ==
    CASE op = "getSheets" -> SHEETS_CACHE_MS
      [] op = "querySheet" -> QUERY_CACHE_MS
      [] op = "getWarehouseId" -> WAREHOUSE_ID_CACHE_MS
      [] op = "findWarehouseByName" -> FIND_WAREHOUSE_BY_NAME_CACHE_MS

(***************************************************************************)
(* Strings                                                                 *)
(***************************************************************************)
SP == " "
BAR == "|"
BASE == <<"u">>

RECURSIVE TrimStart(_)
TrimStart(s) == IF s # <<>> /\ Head(s) = SP THEN TrimStart(Tail(s)) ELSE s

RECURSIVE TrimEnd(_)
TrimEnd(s) == IF s # <<>> /\ s[Len(s)] = SP THEN TrimEnd(SubSeq(s, 1, Len(s) - 1)) ELSE s

\* String.prototype.trim
Trim(s) == TrimEnd(TrimStart(s))

\* one letter in upper case; the alphabet of the model has the letters t, s, n
UpperChar(c) ==
    CASE c = "t" -> "T"
      [] c = "s" -> "S"
      [] c = "n" -> "N"
      [] OTHER -> c

\* String.prototype.toUpperCase
ToUpperCase(s) == [i \in 1..Len(s) |-> UpperChar(s[i])]

\* what the spec calls a case/whitespace-normalized parameter
Normalized(s) == ToUpperCase(Trim(s))

(***************************************************************************)
(* Inputs of the calls                                                     *)
(***************************************************************************)
Warehouses == {<<"T">>, <<SP, "t">>}
Sheets == {<<"S">>}
NameArgs == {<<>>, <<"n">>, <<"n", SP>>}
NameFilters == {<<"n">>, <<"n", SP>>}
BirthdayArgs == {<<"1">>}

\* outcome of the HTTP exchange, as the code tells them apart
\*   net    : fetch() itself throws
\*   http   : res.ok is false
\*   apperr : the payload signals an error (error field, ok: false, no key)
\*   ok     : a payload without an error signal
RespKinds == {"net", "http", "apperr", "ok"}

(***************************************************************************)
(* Cache keys (the template strings named ck)                              *)
(***************************************************************************)
CkWarehouse(warehouse) == BASE \o <<BAR>> \o warehouse

CkVerifyLogin(name, birthday) ==
    BASE \o <<BAR>> \o Trim(name) \o <<BAR>> \o Trim(birthday)

CkFindWarehouseByName(nm) == BASE \o <<BAR>> \o nm

\* (variant: the name filter enters the key untrimmed)
CkQuerySheet_RawName(warehouse, sheet, name) ==
    BASE \o <<BAR>> \o warehouse \o <<BAR>> \o sheet \o <<BAR>> \o name

CkQuerySheet(warehouse, sheet, name) ==
    BASE \o <<BAR>> \o warehouse \o <<BAR>> \o sheet \o <<BAR>> \o Trim(name)

\* toUrl: every parameter is trimmed and an empty one is left out (<<>>)
toUrl(mode, wh, sheet, name, birthday, t) ==
    [mode |-> mode, wh |-> Trim(wh), sheet |-> Trim(sheet), name |-> Trim(name),
     birthday |-> Trim(birthday), t |-> t]

(***************************************************************************)
(* Maps                                                                    *)
(***************************************************************************)
EmptyMap == [k \in {} |-> 0]
MapSet(m, k, v) == [x \in (DOMAIN m) \cup {k} |-> IF x = k THEN v ELSE m[x]]
MapDelete(m, k) == [x \in (DOMAIN m) \ {k} |-> m[x]]

(***************************************************************************)
(* The lookup order of every read                                          *)
(***************************************************************************)
\* (variant: a default endpoint stands in for a missing VITE_GAS_URL)
getBaseUrl_Default == BASE

\* getBaseUrl() is null when VITE_GAS_URL is not set
getBaseUrl == IF configured THEN BASE ELSE <<>>

\* (variant: an entry of age = TTL still counts as fresh)
CacheFresh_Inclusive(op, ck) ==
    /\ ck \in DOMAIN cache[op]
    /\ now - cache[op][ck].ts <= TTL(op)

\* hit && Date.now() - hit.ts < *_CACHE_MS
CacheFresh(op, ck) ==
    /\ ck \in DOMAIN cache[op]
    /\ now - cache[op][ck].ts < TTL(op)

\* (variant: the in-flight map is not consulted)
InflightGet_Never(op, ck) == 0

\* *_INFLIGHT.get(ck)
InflightGet(op, ck) == IF ck \in DOMAIN inflight[op] THEN inflight[op][ck] ELSE 0

\* what the call finds in the cache under its key: nothing, an entry younger
\* than the TTL, or an entry of age >= TTL
EntrySeen(op, ck) ==
    IF op \notin CachedOps \/ ck \notin DOMAIN cache[op] THEN "none"
    ELSE IF CacheFresh(op, ck) THEN "fresh" ELSE "stale"

\* each read has a cache map and an in-flight map of its own, so a behaviour
\* that mixes reads is an interleaving of behaviours of single reads; a
\* behaviour of the model exercises one read.
OpAllowed(op) == \A i \in 1..Len(calls) : calls[i].op = op

\* one call of an exported read, as its caller sees it:
\*   kind   pending | value | error       req    the request it awaits (0: none)
\*   issued it started the fetch          src    the request its result is from
\*   why    config | noname | hit | ""    entry  EntrySeen at the call
CallRec(op, args, ck, kind, req, issued, src, why, entry) ==
    [op |-> op, args |-> args, ck |-> ck, kind |-> kind, req |-> req,
     issued |-> issued, src |-> src, why |-> why, entry |-> entry]

\* the call throws before it looks at any map
Throw(op, args, why) ==
    /\ calls' = Append(calls, CallRec(op, args, <<>>, "error", 0, FALSE, 0, why, "none"))
    /\ UNCHANGED <<cache, inflight, reqs>>

\* return hit.value
ReturnHit(op, args, ck) ==
    /\ calls' = Append(calls, CallRec(op, args, ck, "value", 0, FALSE,
                                      cache[op][ck].value, "hit", EntrySeen(op, ck)))
    /\ UNCHANGED <<cache, inflight, reqs>>

\* return inflight
ReturnInflight(op, args, ck) ==
    /\ calls' = Append(calls, CallRec(op, args, ck, "pending", InflightGet(op, ck),
                                      FALSE, 0, "", EntrySeen(op, ck)))
    /\ UNCHANGED <<cache, inflight, reqs>>

\* (variant: the promise is not registered in the in-flight map)
IssueFetch_NoRegister(op, args, ck, url) ==
    LET r == Len(reqs) + 1 IN
    /\ reqs' = Append(reqs, [op |-> op, ck |-> ck, url |-> url, state |-> "pending",
                             resp |-> "", by |-> Len(calls) + 1])
    /\ calls' = Append(calls, CallRec(op, args, ck, "pending", r, TRUE, 0, "",
                                      EntrySeen(op, ck)))
    /\ UNCHANGED <<cache, inflight>>

\* const p = (async () => { ... fetchJsonNoStore(url) ... })();
\* *_INFLIGHT.set(ck, p); return await p
IssueFetch(op, args, ck, url) ==
    LET r == Len(reqs) + 1 IN
    /\ reqs' = Append(reqs, [op |-> op, ck |-> ck, url |-> url, state |-> "pending",
                             resp |-> "", by |-> Len(calls) + 1])
    /\ inflight' = [inflight EXCEPT ![op] = MapSet(@, ck, r)]
    /\ calls' = Append(calls, CallRec(op, args, ck, "pending", r, TRUE, 0, "",
                                      EntrySeen(op, ck)))
    /\ UNCHANGED cache

\* cache, then in-flight, then fetch
GetOrFetch(op, args, ck, url) ==
    IF CacheFresh(op, ck) THEN ReturnHit(op, args, ck)
    ELSE IF InflightGet(op, ck) # 0 THEN ReturnInflight(op, args, ck)
    ELSE IssueFetch(op, args, ck, url)

gasGetWarehouseId(warehouse) ==
    /\ Len(calls) < MaxCalls
    /\ OpAllowed("getWarehouseId")
    /\ UNCHANGED <<configured, now, dashVars, attVars>>
    /\ IF getBaseUrl = <<>> THEN Throw("getWarehouseId", <<warehouse>>, "config")
       ELSE GetOrFetch("getWarehouseId", <<warehouse>>, CkWarehouse(warehouse),
                       toUrl("getWarehouseId", warehouse, <<>>, <<>>, <<>>, now))

\* (variant: a verification that has succeeded is answered from its result)
gasVerifyLogin_Remembering(name, birthday) ==
    /\ Len(calls) < MaxCalls
    /\ OpAllowed("verifyLogin")
    /\ UNCHANGED <<configured, now, dashVars, attVars>>
    /\ IF getBaseUrl = <<>> THEN Throw("verifyLogin", <<name, birthday>>, "config")
       ELSE LET ck == CkVerifyLogin(name, birthday)
                url == toUrl("verifyLogin", <<>>, <<>>, name, birthday, now)
                done == {r \in 1..Len(reqs) : reqs[r].op = "verifyLogin" /\ reqs[r].ck = ck
                                              /\ reqs[r].state = "resolved"} IN
            IF done # {}
            THEN /\ calls' = Append(calls, CallRec("verifyLogin", <<name, birthday>>, ck,
                                     "value", 0, FALSE, CHOOSE r \in done : TRUE, "hit", "none"))
                 /\ UNCHANGED <<cache, inflight, reqs>>
            ELSE IF InflightGet("verifyLogin", ck) # 0
            THEN ReturnInflight("verifyLogin", <<name, birthday>>, ck)
            ELSE IssueFetch("verifyLogin", <<name, birthday>>, ck, url)

gasVerifyLogin(name, birthday) ==
    /\ Len(calls) < MaxCalls
    /\ OpAllowed("verifyLogin")
    /\ UNCHANGED <<configured, now, dashVars, attVars>>
    /\ IF getBaseUrl = <<>> THEN Throw("verifyLogin", <<name, birthday>>, "config")
       ELSE LET ck == CkVerifyLogin(name, birthday)
                url == toUrl("verifyLogin", <<>>, <<>>, name, birthday, now) IN
            IF InflightGet("verifyLogin", ck) # 0
            THEN ReturnInflight("verifyLogin", <<name, birthday>>, ck)
            ELSE IssueFetch("verifyLogin", <<name, birthday>>, ck, url)

gasFindWarehouseByName(name) ==
    /\ Len(calls) < MaxCalls
    /\ OpAllowed("findWarehouseByName")
    /\ UNCHANGED <<configured, now, dashVars, attVars>>
    /\ IF getBaseUrl = <<>> THEN Throw("findWarehouseByName", <<name>>, "config")
       ELSE LET nm == Trim(name) IN
            IF nm = <<>> THEN Throw("findWarehouseByName", <<name>>, "noname")
            ELSE GetOrFetch("findWarehouseByName", <<name>>, CkFindWarehouseByName(nm),
                            toUrl("findWarehouseByName", <<>>, <<>>, nm, <<>>, now))

gasGetSheets(warehouse) ==
    /\ Len(calls) < MaxCalls
    /\ OpAllowed("getSheets")
    /\ UNCHANGED <<configured, now, dashVars, attVars>>
    /\ IF getBaseUrl = <<>> THEN Throw("getSheets", <<warehouse>>, "config")
       ELSE GetOrFetch("getSheets", <<warehouse>>, CkWarehouse(warehouse),
                       toUrl("getSheets", warehouse, <<>>, <<>>, <<>>, now))

gasQuerySheet(warehouse, sheet, name) ==
    /\ Len(calls) < MaxCalls
    /\ OpAllowed("querySheet")
    /\ UNCHANGED <<configured, now, dashVars, attVars>>
    /\ IF getBaseUrl = <<>> THEN Throw("querySheet", <<warehouse, sheet, name>>, "config")
       ELSE GetOrFetch("querySheet", <<warehouse, sheet, name>>,
                       CkQuerySheet(warehouse, sheet, name),
                       toUrl("api", warehouse, sheet, Trim(name), <<>>, now))

(***************************************************************************)
(* The request settles                                                     *)
(***************************************************************************)
\* does the async body of op throw on this exchange?
\* fetchJsonNoStore throws on net and http; the four cached reads also throw
\* on a payload that signals an error; gasVerifyLogin returns the payload.
Rejects(op, kind) ==
    \/ kind \in {"net", "http"}
    \/ kind = "apperr" /\ op # "verifyLogin"

\* (variant: the cache is written whatever the outcome)
CacheAfter_Always(op, ck, r, kind) ==
    IF op \in CachedOps
    THEN [cache EXCEPT ![op] = MapSet(@, ck, [ts |-> now, value |-> r])]
    ELSE cache

\* *_CACHE.set(ck, { ts: Date.now(), value }) is reached only past the throws
CacheAfter(op, ck, r, kind) ==
    IF op \in CachedOps /\ ~Rejects(op, kind)
    THEN [cache EXCEPT ![op] = MapSet(@, ck, [ts |-> now, value |-> r])]
    ELSE cache

\* (variant: the in-flight entry is removed on success only)
InflightAfter_OnSuccess(op, ck, kind) ==
    IF Rejects(op, kind) THEN inflight ELSE [inflight EXCEPT ![op] = MapDelete(@, ck)]

\* finally { *_INFLIGHT.delete(ck) }
InflightAfter(op, ck, kind) == [inflight EXCEPT ![op] = MapDelete(@, ck)]

\* (variant: a failed request is issued again)
ReqsAfter_Retry(r, kind) ==
    LET settled == [reqs EXCEPT ![r].state = IF Rejects(reqs[r].op, kind)
                                             THEN "rejected" ELSE "resolved",
                                ![r].resp = kind] IN
    IF Rejects(reqs[r].op, kind) /\ Len(reqs) < MaxCalls
    THEN Append(settled, [reqs[r] EXCEPT !.state = "pending", !.resp = ""])
    ELSE settled

\* the requests after request r has settled
ReqsAfter(r, kind) ==
    [reqs EXCEPT ![r].state = IF Rejects(reqs[r].op, kind) THEN "rejected" ELSE "resolved",
                 ![r].resp = kind]

\* every caller that holds the promise of request r gets its result
CallsAfter(r, kind) ==
    [i \in 1..Len(calls) |->
        IF calls[i].kind = "pending" /\ calls[i].req = r
        THEN [calls[i] EXCEPT !.kind = IF Rejects(reqs[r].op, kind) THEN "error" ELSE "value",
                              !.src = r]
        ELSE calls[i]]

Settle(r, kind) ==
    /\ r \in 1..Len(reqs)
    /\ reqs[r].state = "pending"
    /\ cache' = CacheAfter(reqs[r].op, reqs[r].ck, r, kind)
    /\ inflight' = InflightAfter(reqs[r].op, reqs[r].ck, kind)
    /\ reqs' = ReqsAfter(r, kind)
    /\ calls' = CallsAfter(r, kind)
    /\ UNCHANGED <<configured, now, dashVars, attVars>>

\* some cache entry is still younger than its TTL
SomeFresh ==
    \E op \in CachedOps : \E ck \in DOMAIN cache[op] : now - cache[op][ck].ts < TTL(op)

\* Time passes.  The clock is read only to age cache entries, so it is
\* advanced only while some entry is still fresh: a tick with no fresh entry
\* changes no decision of any read.
Tick ==
    /\ now < MaxTicks * TickMs
    /\ SomeFresh
    /\ now' = now + TickMs
    /\ UNCHANGED <<configured, cache, inflight, reqs, calls, dashVars, attVars>>

ApiInit ==
    /\ configured \in BOOLEAN
    /\ now = 0
    /\ cache = [op \in CachedOps |-> EmptyMap]
    /\ inflight = [op \in Ops |-> EmptyMap]
    /\ reqs = <<>>
    /\ calls = <<>>

ApiNext ==
    \/ \E w \in Warehouses : gasGetWarehouseId(w)
    \/ \E n \in NameArgs, b \in BirthdayArgs : gasVerifyLogin(n, b)
    \/ \E n \in NameArgs : gasFindWarehouseByName(n)
    \/ \E w \in Warehouses : gasGetSheets(w)
    \/ \E w \in Warehouses, s \in Sheets, n \in NameFilters : gasQuerySheet(w, s, n)
    \/ \E r \in 1..Len(reqs), k \in RespKinds : Settle(r, k)
    \/ Tick

\* the page is not open while the reads are exercised
DashClosed ==
    /\ user = [name |-> <<"a">>, isAdmin |-> TRUE, warehouseKey |-> <<"T">>]
    /\ query = [warehouse |-> <<>>, page |-> <<>>]
    /\ status = "idle"
    /\ result = [none |-> TRUE]
    /\ error = ""
    /\ availablePages = [of |-> <<>>, pages |-> <<>>]
    /\ attAll = [warehouse |-> <<>>, source |-> <<>>, n |-> 0]
    /\ PAGES_CACHE = EmptyMap
    /\ worstTimer = FALSE
    /\ pending = EmptyBag
    /\ acts = 0

\* no row is being summarized
RowIdle ==
    /\ rowPage = <<>>
    /\ rowDateCols = FALSE
    /\ rowAtt = "absent"
    /\ pc = "done"
    /\ ci = 0
    /\ shouldDays = 0
    /\ actDays = 0
    /\ expected = 0
    /\ attended = 0
    /\ cell = [none |-> TRUE]
    /\ rowAttendance = [none |-> TRUE]

\* no sheet has been queried
SheetIdle ==
    /\ payload = [none |-> TRUE]
    /\ sheetPage = <<>>
    /\ isAdminView = FALSE
    /\ gasHeaders = <<>>
    /\ gasHeadersISO = <<>>
    /\ gasDateCols = <<>>
    /\ dateList = <<>>
    /\ gasRows = <<>>
    /\ attAllList = <<>>
    /\ attEndDate = <<>>
    /\ attName = <<>>
    /\ attSingleBuilt = <<>>
    /\ attAllBuilt = <<>>
    /\ sheetPc = "closed"

\* no function of the page has been called on its own
FnIdle ==
    /\ normInput = [none |-> TRUE]
    /\ normOut = [none |-> TRUE]
    /\ leaveInput = [none |-> TRUE]
    /\ leaveData = [none |-> TRUE]
    /\ keyInput = [none |-> TRUE]
    /\ keyOut = [none |-> TRUE]

Init == ApiInit /\ DashClosed /\ RowIdle /\ SheetIdle /\ FnIdle
Next == ApiNext
Spec == Init /\ [][Next]_vars

(***************************************************************************)
(* Part 2: the dashboard page (DashboardPage), with the endpoint           *)
(* configured (useGas = true).  A user event or the continuation of an     *)
(* await runs to completion, state updates are committed together and the  *)
(* effects whose dependencies changed run right after.  The remote reads   *)
(* are the environment: each await is answered later, in any order, with a *)
(* payload for the parameters of the call or with a failure.               *)
(***************************************************************************)
Null == [none |-> TRUE]

\* Page names.  Each CJK character is written as one token, named by its
\* reading: ban biao (schedule), chu qin ji4 lu4 (attendance record),
\* chu qin ji3 lv4 (attendance discipline), chu qin shi shu (hours report).
P_SCHEDULE == <<"ban", "biao">>
P_RECORD == <<"chu", "qin", "ji4", "lu4">>
P_DISCIPLINE == <<"chu", "qin", "ji3", "lv4">>
P_HOURS == <<"chu", "qin", "shi", "shu">>
P_ATT == <<"chu", "qin">>

TAO1 == <<"T", "A", "O", "1">>
TA01 == <<"T", "A", "0", "1">>
TAO3 == <<"T", "A", "O", "3">>

mockWarehouses == <<TAO1, TAO3>>
mockPages == <<P_SCHEDULE, P_RECORD, P_HOURS>>

\* the sheet list the backend has for a warehouse
SheetsOf(w) == IF w = TAO1 THEN <<P_SCHEDULE, P_HOURS>> ELSE <<P_RECORD, P_SCHEDULE>>

\* the users of the model: the admin and one employee of each warehouse
Users ==
    {[name |-> <<"a">>, isAdmin |-> TRUE, warehouseKey |-> TAO1]}
    \cup {[name |-> <<"n">>, isAdmin |-> FALSE, warehouseKey |-> w] :
             w \in {TAO1, TAO3}}

\* String.prototype.includes
Includes(s, sub) ==
    \E i \in 1..(Len(s) + 1) :
        i + Len(sub) - 1 <= Len(s) /\ SubSeq(s, i, i + Len(sub) - 1) = sub

isHoursPage(page) == Trim(page) = P_HOURS

isAttPage(page) ==
    Includes(page, P_SCHEDULE) \/ Includes(page, P_RECORD) \/ Includes(page, P_DISCIPLINE)

normalizeWarehouseKey(wh) == ToUpperCase(Trim(wh))

\* list.find(pred) || ''  for the predicate "the trimmed page includes sub"
RECURSIVE pickFirst(_, _)
pickFirst(list, sub) ==
    IF list = <<>> THEN <<>>
    ELSE IF Includes(Trim(Head(list)), sub) THEN Head(list)
    ELSE pickFirst(Tail(list), sub)

\* a || b for strings
OrElse(a, b) == IF a # <<>> THEN a ELSE b

pickWorstSourceSheet(warehouse, pages) ==
    LET wh == normalizeWarehouseKey(warehouse)
        first == IF pages = <<>> THEN <<>> ELSE pages[1] IN
    IF wh = TAO1 \/ wh = TA01
    THEN OrElse(pickFirst(pages, P_SCHEDULE),
         OrElse(pickFirst(pages, P_DISCIPLINE),
         OrElse(pickFirst(pages, P_RECORD),
         OrElse(pickFirst(pages, P_ATT), first))))
    ELSE OrElse(pickFirst(pages, P_SCHEDULE),
         OrElse(pickFirst(pages, P_RECORD),
         OrElse(pickFirst(pages, P_ATT), first)))

isAdmin == user.isAdmin

\* (variant: every query is made without a name)
apiName_Everyone == <<>>

\* const apiName = isAdmin ? '' : (user?.name || '')
apiName == IF isAdmin THEN <<>> ELSE user.name

SeqToSet(q) == {q[i] : i \in 1..Len(q)}

\* the awaits of the page form a bag: they are answered in any order
Await(pend, op) == pend (+) SetToBag({op})
Answered(pend, op) == pend (-) SetToBag({op})

\* pages.length ? pages : mockPages
PagesOrMock(w, pages) ==
    IF pages # <<>> THEN [of |-> w, pages |-> pages] ELSE [of |-> <<>>, pages |-> mockPages]

NoRanking == [warehouse |-> <<>>, source |-> <<>>, n |-> 0]

\* the awaits of the page
DoQueryOp(q) == [fn |-> "doQuery", warehouse |-> q.warehouse, sheet |-> q.page, name |-> apiName]
RefreshPagesOp(w) == [fn |-> "refreshPages", warehouse |-> w, sheet |-> <<>>, name |-> <<>>]
WorstOp(w, source) ==
    [fn |-> "refreshWorstAttendance", warehouse |-> w, sheet |-> source, name |-> apiName]

\* the ranking effect arms its timer
WorstEffectArms(q, ap) ==
    /\ ap.pages # <<>>
    /\ ~isHoursPage(q.page)
    /\ isAttPage(q.page)

\* dependencies of the ranking effect and of the auto-query effect
WorstDeps(q, ap) == <<q.warehouse, ap.pages, isHoursPage(q.page), isAttPage(q.page)>>
QueryDeps(q) == <<q.warehouse, q.page>>

\* the auto-query effect calls doQuery
AutoQueryRuns(q, st) == st # "loading" /\ q.page # <<>>

\* The render that commits the new state q, ap, st, res, err, and the
\* effects that follow it.  pend is the list of awaits after the handler.
Commit(q, ap, st, res, err, pend) ==
    LET auto == QueryDeps(q) # QueryDeps(query) /\ AutoQueryRuns(q, st) IN
    /\ query' = q
    /\ availablePages' = ap
    /\ status' = IF auto THEN "loading" ELSE st
    /\ result' = IF auto THEN Null ELSE res
    /\ error' = IF auto THEN "" ELSE err
    /\ pending' = IF auto THEN Await(pend, DoQueryOp(q)) ELSE pend
    /\ worstTimer' = IF WorstDeps(q, ap) # WorstDeps(query, availablePages)
                     THEN WorstEffectArms(q, ap) ELSE worstTimer

\* refreshPages(warehouse), called by a handler that has set the query to q0:
\* a fresh PAGES_CACHE entry is applied at once, else gasGetSheets is awaited
refreshPages(warehouse, q0) ==
    IF warehouse \in DOMAIN PAGES_CACHE
    THEN LET pages == PAGES_CACHE[warehouse]
             page == IF q0.page \in SeqToSet(pages) THEN q0.page
                     ELSE IF pages # <<>> THEN pages[1] ELSE q0.page IN
         Commit([q0 EXCEPT !.page = page], PagesOrMock(warehouse, pages),
                status, result, error, pending)
    ELSE Commit(q0, availablePages, status, result, error,
                Await(pending, RefreshPagesOp(warehouse)))

\* the warehouse select: onChange
SelectWarehouse(w) ==
    /\ acts < MaxActs
    /\ isAdmin
    /\ w # query.warehouse
    /\ acts' = acts + 1
    /\ refreshPages(w, [warehouse |-> w, page |-> <<>>])
    /\ UNCHANGED <<user, attAll, PAGES_CACHE, apiVars, attVars>>

\* the page select: onChange
SelectPage(p) ==
    /\ acts < MaxActs
    /\ p \in SeqToSet(availablePages.pages)
    /\ p # query.page
    /\ acts' = acts + 1
    /\ Commit([query EXCEPT !.page = p], availablePages, status, result, error, pending)
    /\ UNCHANGED <<user, attAll, PAGES_CACHE, apiVars, attVars>>

\* (variant: the query button is not disabled while a query is loading)
ClickQuery_Always ==
    /\ acts < MaxActs
    /\ acts' = acts + 1
    /\ Commit(query, availablePages, "loading", Null, "", Await(pending, DoQueryOp(query)))
    /\ UNCHANGED <<user, attAll, PAGES_CACHE, apiVars, attVars>>

\* the query button, and the retry button of the error panel: onClick={doQuery}
ClickQuery ==
    /\ acts < MaxActs
    /\ status # "loading"
    /\ acts' = acts + 1
    /\ Commit(query, availablePages, "loading", Null, "", Await(pending, DoQueryOp(query)))
    /\ UNCHANGED <<user, attAll, PAGES_CACHE, apiVars, attVars>>

\* the back button of the empty panel: clear()
clear ==
    /\ acts < MaxActs
    /\ status = "empty"
    /\ acts' = acts + 1
    /\ LET baseWh == IF ~isAdmin /\ user.warehouseKey # <<>>
                     THEN user.warehouseKey ELSE mockWarehouses[1] IN
       Commit([warehouse |-> baseWh, page |-> mockPages[1]], availablePages,
              "idle", Null, "", pending)
    /\ UNCHANGED <<user, attAll, PAGES_CACHE, apiVars, attVars>>

\* doQuery after its await: rows > 0, no rows, or the read has thrown
DoQueryDone(op, outcome) ==
    /\ op \in BagToSet(pending)
    /\ op.fn = "doQuery"
    /\ LET rest == Answered(pending, op) IN
       CASE outcome = "rows" ->
              Commit(query, availablePages, "success",
                     [warehouse |-> op.warehouse, page |-> op.sheet, name |-> op.name, n |-> 1],
                     error, rest)
         [] outcome = "norows" ->
              Commit(query, availablePages, "empty",
                     [warehouse |-> op.warehouse, page |-> op.sheet, name |-> op.name, n |-> 0],
                     error, rest)
         [] outcome = "throws" ->
              Commit(query, availablePages, "error", result, "failed", rest)
    /\ UNCHANGED <<user, attAll, PAGES_CACHE, acts, apiVars, attVars>>

\* refreshPages after its await of gasGetSheets
RefreshPagesDone(op, ok) ==
    /\ op \in BagToSet(pending)
    /\ op.fn = "refreshPages"
    /\ LET rest == Answered(pending, op)
           pages == SheetsOf(op.warehouse) IN
       IF ok
       THEN /\ PAGES_CACHE' = MapSet(PAGES_CACHE, op.warehouse, pages)
            /\ Commit([query EXCEPT !.page = IF pages # <<>> THEN pages[1] ELSE @],
                      PagesOrMock(op.warehouse, pages), status, result, error, rest)
       ELSE /\ PAGES_CACHE' = PAGES_CACHE
            /\ Commit(query, [of |-> <<>>, pages |-> mockPages], status, result, error, rest)
    /\ UNCHANGED <<user, attAll, acts, apiVars, attVars>>

\* the timer of the ranking effect fires: refreshWorstAttendance() up to its await
WorstTimerFires ==
    /\ worstTimer
    /\ worstTimer' = FALSE
    /\ LET source == pickWorstSourceSheet(query.warehouse, availablePages.pages) IN
       IF source = <<>>
       THEN attAll' = NoRanking /\ pending' = pending
       ELSE attAll' = attAll /\ pending' = Await(pending, WorstOp(query.warehouse, source))
    /\ UNCHANGED <<user, query, status, result, error, availablePages, PAGES_CACHE, acts,
                   apiVars, attVars>>

\* refreshWorstAttendance after its await: a ranking of n employees, or none
RefreshWorstDone(op, n) ==
    /\ op \in BagToSet(pending)
    /\ op.fn = "refreshWorstAttendance"
    /\ attAll' = [warehouse |-> op.warehouse, source |-> op.sheet, n |-> n]
    /\ pending' = Answered(pending, op)
    /\ UNCHANGED <<user, query, status, result, error, availablePages, PAGES_CACHE,
                   worstTimer, acts, apiVars, attVars>>

\* a PAGES_CACHE entry grows older than PAGES_CACHE_MS
PagesCacheExpires(w) ==
    /\ w \in DOMAIN PAGES_CACHE
    /\ PAGES_CACHE' = MapDelete(PAGES_CACHE, w)
    /\ UNCHANGED <<user, query, status, result, error, availablePages, attAll,
                   worstTimer, pending, acts, apiVars, attVars>>

\* The page after its first render and its mount effects: refreshPages of
\* the initial warehouse is awaited, the ranking timer is armed and doQuery
\* of the initial query is awaited.
DashInit ==
    /\ user \in Users
    /\ query = [warehouse |-> IF ~user.isAdmin /\ user.warehouseKey # <<>>
                              THEN user.warehouseKey ELSE mockWarehouses[1],
                page |-> mockPages[1]]
    /\ status = "loading"
    /\ result = Null
    /\ error = ""
    /\ availablePages = [of |-> <<>>, pages |-> mockPages]
    /\ attAll = NoRanking
    /\ PAGES_CACHE = EmptyMap
    /\ worstTimer = TRUE
    /\ pending = SetToBag({RefreshPagesOp(query.warehouse), DoQueryOp(query)})
    /\ acts = 0

DashNext ==
    \/ \E w \in SeqToSet(mockWarehouses) : SelectWarehouse(w)
    \/ \E p \in SeqToSet(mockPages) \cup {P_RECORD} : SelectPage(p)
    \/ ClickQuery
    \/ clear
    \/ \E op \in BagToSet(pending), o \in {"rows", "norows", "throws"} : DoQueryDone(op, o)
    \/ \E op \in BagToSet(pending), ok \in BOOLEAN : RefreshPagesDone(op, ok)
    \/ WorstTimerFires
    \/ \E op \in BagToSet(pending), n \in 0..1 : RefreshWorstDone(op, n)
    \/ \E w \in SeqToSet(mockWarehouses) : PagesCacheExpires(w)

\* the reads are the environment of the page: their maps stay as they are
ApiIdle ==
    /\ configured = TRUE
    /\ now = 0
    /\ cache = [op \in CachedOps |-> EmptyMap]
    /\ inflight = [op \in Ops |-> EmptyMap]
    /\ reqs = <<>>
    /\ calls = <<>>

InitDash == DashInit /\ ApiIdle /\ RowIdle /\ SheetIdle /\ FnIdle
NextDash == DashNext
SpecDash == InitDash /\ [][NextDash]_vars

\* every read the page awaits is answered and the armed timer fires; the
\* user is free to act or not
ReadsSettle ==
    /\ WF_vars(\E op \in BagToSet(pending), o \in {"rows", "norows", "throws"} : DoQueryDone(op, o))
    /\ WF_vars(\E op \in BagToSet(pending), ok \in BOOLEAN : RefreshPagesDone(op, ok))
    /\ WF_vars(\E op \in BagToSet(pending), n \in 0..1 : RefreshWorstDone(op, n))
    /\ WF_vars(WorstTimerFires)

SpecDashFair == InitDash /\ [][NextDash]_vars /\ ReadsSettle


(***************************************************************************)
(* Part 3: the attendance classifier (tokenizeCell, isShouldAttendCell,    *)
(* isAutoAttendCell, isActualAttendCell, statusFromRate) and the summary   *)
(* of one row, as gasPayloadToRows/calcAttendance and the forEach of       *)
(* doQuery compute it, one date column per step.                           *)
(*                                                                         *)
(* A cell text is a sequence of characters.  The CJK characters are named  *)
(* by a transliteration, one name per character:                           *)
(*   xiu 休  jia4 假  ri 日  li4 例  guo 國  li2 離  diao 調  cang 倉       *)
(*   ren 任  zhuan 轉  zheng 正  wei 未  te 特  gong 公  bing 病  shi4 事   *)
(*   sang 喪  hun 婚  chan 產  yu 育  ying 嬰  jia1 加  ban 班              *)
(***************************************************************************)
CJKChars ==
    {"xiu", "jia4", "ri", "li4", "guo", "li2", "diao", "cang", "ren", "zhuan",
     "zheng", "wei", "te", "gong", "bing", "shi4", "sang", "hun", "chan", "yu",
     "ying", "jia1", "ban", "biao", "chu", "qin", "ji4", "lu4", "ji3", "lv4",
     "shi", "shu", "xing", "ming"}

AlnumChars == {"A", "B", "O", "F", "o", "f", "0", "1", "2", "8", "9"}

\* the separators of tokenizeCell: 、 ， , ; ／ / and the line feed
Separators == {"dun", "fwcomma", ",", ";", "fwslash", "/", "nl"}

\* String.prototype.split on /[、，,;／\/\n]+/ : the pieces between the
\* maximal runs of separators (a leading or trailing run leaves an empty piece)
RECURSIVE SplitFrom(_, _, _, _)
SplitFrom(s, i, cur, acc) ==
    IF i > Len(s) THEN Append(acc, cur)
    ELSE IF s[i] \in Separators
         THEN IF i > 1 /\ s[i - 1] \in Separators
              THEN SplitFrom(s, i + 1, cur, acc)
              ELSE SplitFrom(s, i + 1, <<>>, Append(acc, cur))
         ELSE SplitFrom(s, i + 1, Append(cur, s[i]), acc)

Split(s) == SplitFrom(s, 1, <<>>, <<>>)

\* Array.prototype.filter(Boolean) on strings: the non-empty ones, in order
RECURSIVE FilterNonEmpty(_)
FilterNonEmpty(q) ==
    IF q = <<>> THEN <<>>
    ELSE IF Head(q) = <<>> THEN FilterNonEmpty(Tail(q))
         ELSE <<Head(q)>> \o FilterNonEmpty(Tail(q))

tokenizeCell(raw) ==
    LET s == Trim(raw) IN
    IF s = <<>> THEN <<>>
    ELSE LET pieces == Split(s) IN
         FilterNonEmpty([k \in 1..Len(pieces) |-> Trim(pieces[k])])

buildExcludeForAttRateSet ==
    {<<"li4">>, <<"li4", "jia4">>, <<"li4", "jia4", "ri">>, <<"li4", "xiu">>,
     <<"xiu">>, <<"xiu", "jia4">>, <<"xiu", "jia4", "ri">>, <<"guo">>,
     <<"li2">>, <<"diao", "cang">>, <<"diao", "ren">>, <<"zhuan", "zheng">>}

buildExcludeFromAbsSet ==
    buildExcludeForAttRateSet \cup {<<"wei">>, <<"te">>}

\* buildExcludeSet(undefined) of transformGas: no caller passes a list
buildExcludeSet ==
    {<<"xiu">>, <<"xiu", "jia4">>, <<"gong", "xiu">>, <<"te", "xiu">>,
     <<"bing", "jia4">>, <<"shi4", "jia4">>, <<"sang", "jia4">>,
     <<"hun", "jia4">>, <<"chan", "jia4">>, <<"yu", "ying">>,
     <<"O", "F", "F">>, <<"o", "f", "f">>, <<"li2">>}

\* ALNUM_RE.test(t) and HAS_CJK_RE.test(t)
ALNUM_RE(t) == t # <<>> /\ \A k \in 1..Len(t) : t[k] \in AlnumChars
HAS_CJK_RE(t) == \E k \in 1..Len(t) : t[k] \in CJKChars

isShouldAttendCell(raw, exclude) ==
    LET s == Trim(raw)
        toks == tokenizeCell(s) IN
    IF s = <<>> THEN TRUE
    ELSE ~(\E k \in 1..Len(toks) : toks[k] \in exclude)

isAutoAttendCell(raw, excludeAbs) ==
    LET s == Trim(raw)
        tokens == tokenizeCell(s) IN
    IF s = <<>> THEN FALSE
    ELSE IF \E k \in 1..Len(tokens) : tokens[k] \in excludeAbs THEN TRUE
    ELSE Len(tokens) = 1 /\ ALNUM_RE(tokens[1]) /\ ~HAS_CJK_RE(tokens[1])

\* (variant: a row that carries an att array attends every day it should)
isActualAttendCell_AnyFlag(hasAtt, attAtCol, cellValue, excludeAbs) ==
    IF isAutoAttendCell(cellValue, excludeAbs) THEN TRUE
    ELSE hasAtt

\* hasAtt: Array.isArray(row._att) && row._att.length > 0; attAtCol: att[colIndex]
isActualAttendCell(hasAtt, attAtCol, cellValue, excludeAbs) ==
    IF isAutoAttendCell(cellValue, excludeAbs) THEN TRUE
    ELSE IF hasAtt THEN attAtCol # 0
    ELSE FALSE

\* A rate is the quotient of two small counts; it is kept as the pair
\* [num, den] and compared by cross-multiplication.  For counts this small
\* the correctly rounded double of attended / expected compares with 0.9,
\* with 0.75 and with another such quotient as the exact quotients do.
Quotient(n, d) == [num |-> n, den |-> d]
Zero == [num |-> 0, den |-> 1]
RateGE(r, q) == r.num * q.den >= q.num * r.den
RateLT(r, q) == r.num * q.den < q.num * r.den
RateEQ(r, q) == r.num * q.den = q.num * r.den

\* (variant: the thresholds are exclusive)
statusFromRate_Exclusive(rate) ==
    IF ~RateGE(Quotient(9, 10), rate) THEN "normal"
    ELSE IF ~RateGE(Quotient(3, 4), rate) THEN "low"
    ELSE "abnormal"

statusFromRate(rate) ==
    IF RateGE(rate, Quotient(9, 10)) THEN "normal"
    ELSE IF RateGE(rate, Quotient(3, 4)) THEN "low"
    ELSE "abnormal"

AttendanceSummary(rate, att, exp) ==
    [rate |-> rate, attended |-> att, expected |-> exp, status |-> statusFromRate(rate)]

\* the cell texts a date column of a schedule sheet is given in the model:
\* empty, blank, 休, 休/加班, A1, 特, 特休, 例, 9:00, A1/B2, 未、加班, OFF, 加班
RowCells ==
    {<<>>, <<SP>>, <<"xiu">>, <<"xiu", "/", "jia1", "ban">>, <<"A", "1">>,
     <<"te">>, <<"te", "xiu">>, <<"li4">>, <<"9", ":", "0", "0">>,
     <<"A", "1", "/", "B", "2">>, <<"wei", "dun", "jia1", "ban">>,
     <<"O", "F", "F">>, <<"jia1", "ban">>}

\* the values att[ci] takes; a row without a non-empty att array has none
AttFlags == IF rowAtt = "present" THEN {0, 1} ELSE {0}

\* calcAttendance gets past its early returns (and gasPayloadToRows calls it:
\* doQuery passes disableAttendance: isHoursPage)
CalcEnters ==
    /\ ~isHoursPage(rowPage)
    /\ Includes(Trim(rowPage), P_SCHEDULE)
    /\ rowDateCols
    /\ rowAtt = "present"

\* the forEach of doQuery enters its loop over dateCols
QueryLoops == ~isHoursPage(rowPage) /\ Includes(rowPage, P_SCHEDULE)

Visited(text, flag, skip) == [text |-> text, att |-> flag, skip |-> skip]

\* calcAttendance returns undefined, or is not called
CalcSkip ==
    /\ pc = "calc"
    /\ ~CalcEnters
    /\ pc' = "query"
    /\ UNCHANGED <<rowPage, rowDateCols, rowAtt, ci, shouldDays, actDays,
                   expected, attended, cell, rowAttendance>>
    /\ UNCHANGED <<apiVars, dashVars, sheetVars, fnVars>>

\* one turn of `for (const ci of dateCols)` in calcAttendance
CalcStep(hdrBlank, inRow, text, flag) ==
    /\ pc = "calc"
    /\ CalcEnters
    /\ ci < MaxCols
    /\ ci' = ci + 1
    /\ IF hdrBlank \/ ~inRow
       THEN /\ cell' = Visited(text, flag, TRUE)
            /\ UNCHANGED <<shouldDays, actDays>>
       ELSE /\ cell' = Visited(text, flag, FALSE)
            /\ IF isShouldAttendCell(text, buildExcludeSet)
               THEN /\ shouldDays' = shouldDays + 1
                    /\ actDays' = IF flag # 0 THEN actDays + 1 ELSE actDays
               ELSE UNCHANGED <<shouldDays, actDays>>
    /\ UNCHANGED <<rowPage, rowDateCols, rowAtt, pc, expected, attended, rowAttendance>>
    /\ UNCHANGED <<apiVars, dashVars, sheetVars, fnVars>>

\* the end of calcAttendance: { rate, attended, expected, status }
CalcSummary ==
    LET rate == IF shouldDays # 0 THEN Quotient(actDays, shouldDays) ELSE Zero IN
    AttendanceSummary(rate, actDays, shouldDays)

\* calcAttendance returns; gasPayloadToRows stores the summary in the row
CalcDone ==
    /\ pc = "calc"
    /\ CalcEnters
    /\ ci >= 1
    /\ rowAttendance' = CalcSummary
    /\ pc' = "query"
    /\ ci' = 0
    /\ UNCHANGED <<rowPage, rowDateCols, rowAtt, shouldDays, actDays,
                   expected, attended, cell>>
    /\ UNCHANGED <<apiVars, dashVars, sheetVars, fnVars>>

\* doQuery: `if ((row as any)._attendance) return`
QuerySkip ==
    /\ pc = "query"
    /\ rowAttendance # Null
    /\ pc' = "done"
    /\ UNCHANGED <<rowPage, rowDateCols, rowAtt, ci, shouldDays, actDays,
                   expected, attended, cell, rowAttendance>>
    /\ UNCHANGED <<apiVars, dashVars, sheetVars, fnVars>>

\* one turn of `for (const ci of dateCols)` in the forEach of doQuery; a cell
\* the row does not have is read as ''
QueryStep(hdrBlank, text, flag) ==
    /\ pc = "query"
    /\ rowAttendance = Null
    /\ QueryLoops
    /\ ci < MaxCols
    /\ ci' = ci + 1
    /\ IF hdrBlank
       THEN /\ cell' = Visited(text, flag, TRUE)
            /\ UNCHANGED <<expected, attended>>
       ELSE /\ cell' = Visited(text, flag, FALSE)
            /\ IF isShouldAttendCell(text, buildExcludeForAttRateSet)
               THEN /\ expected' = expected + 1
                    /\ attended' =
                         IF isActualAttendCell(rowAtt = "present", flag, text,
                                               buildExcludeFromAbsSet)
                         THEN attended + 1 ELSE attended
               ELSE UNCHANGED <<expected, attended>>
    /\ UNCHANGED <<rowPage, rowDateCols, rowAtt, pc, shouldDays, actDays, rowAttendance>>
    /\ UNCHANGED <<apiVars, dashVars, sheetVars, fnVars>>

\* doQuery: rate = expected > 0 ? attended / expected : 0
QuerySummary ==
    LET rate == IF expected > 0 THEN Quotient(attended, expected) ELSE Zero IN
    AttendanceSummary(rate, attended, expected)

\* doQuery sets row._attendance unconditionally
QueryDone ==
    /\ pc = "query"
    /\ rowAttendance = Null
    /\ rowAttendance' = QuerySummary
    /\ pc' = "done"
    /\ UNCHANGED <<rowPage, rowDateCols, rowAtt, ci, shouldDays, actDays,
                   expected, attended, cell>>
    /\ UNCHANGED <<apiVars, dashVars, sheetVars, fnVars>>

\* a row of a payload that gasPayloadToRows is about to normalize
RowInit ==
    /\ rowPage \in {P_SCHEDULE, P_HOURS, P_RECORD}
    /\ rowDateCols \in BOOLEAN
    /\ rowAtt \in {"absent", "empty", "present"}
    /\ pc = "calc"
    /\ ci = 0
    /\ shouldDays = 0
    /\ actDays = 0
    /\ expected = 0
    /\ attended = 0
    /\ cell = Null
    /\ rowAttendance = Null

RowNext ==
    \/ CalcSkip
    \/ \E h \in BOOLEAN, v \in BOOLEAN, t \in RowCells, f \in AttFlags : CalcStep(h, v, t, f)
    \/ CalcDone
    \/ QuerySkip
    \/ \E h \in BOOLEAN, t \in RowCells, f \in AttFlags : QueryStep(h, t, f)
    \/ QueryDone

InitRow == RowInit /\ ApiIdle /\ DashClosed /\ SheetIdle /\ FnIdle
NextRow == RowNext
SpecRow == InitRow /\ [][NextRow]_vars

(***************************************************************************)
(* Part 4: one sheet payload through gasPayloadToRows, the per-row         *)
(* summaries of doQuery, the per-employee ranking of                       *)
(* refreshWorstAttendance and the range statistics.                        *)
(*                                                                         *)
(* Columns are numbered from 1: column k of the model is index k - 1 of    *)
(* the code, in headers, headersISO, row.v, row.att and dateCols alike.    *)
(***************************************************************************)
\* 姓名, and the placeholder （未命名）
NAME == <<"xing", "ming">>
UNNAMED == <<"(", "wei", "ming", "ming", ")">>

\* an optional array (dateCols, att) is Null when absent, Some(array) otherwise
Some(x) == [some |-> x]

\* String(v[k] ?? ''): the text of entry k, '' past the end
TextAt(v, k) == IF k \in 1..Len(v) THEN v[k] ELSE <<>>

\* att[ci] as a flag: undefined is falsy
AttAt(att, k) == IF att # Null /\ k \in 1..Len(att.some) THEN att.some[k] ELSE 0

\* Array.isArray(att) && att.length > 0
HasAtt(att) == att # Null /\ att.some # <<>>

\* a header that is missing, empty or blank: !hk || !String(hk).trim()
BlankHeader(headers, k) == k \notin 1..Len(headers) \/ Trim(headers[k]) = <<>>

Digit(k) == CASE k = 1 -> "1" [] k = 2 -> "2" [] k = 3 -> "3" [] k = 4 -> "4"
              [] k = 5 -> "5" [] k = 6 -> "6" [] k = 7 -> "7" [] k = 8 -> "8"
              [] k = 9 -> "9" [] OTHER -> "0"

\* the key of column k in a normalized row: headers[i] || `col_${i + 1}`
KeyOf(headers, k) == IF headers[k] # <<>> THEN headers[k] ELSE <<"col_", Digit(k)>>

\* the characters cleanForBlankCheck strips: format characters and whitespace
Invisible == {SP, "zwsp", "nbsp"}

RECURSIVE cleanForBlankCheck(_)
cleanForBlankCheck(v) ==
    IF v = <<>> THEN <<>>
    ELSE IF Head(v) \in Invisible THEN cleanForBlankCheck(Tail(v))
         ELSE <<Head(v)>> \o cleanForBlankCheck(Tail(v))

\* (variant: a cell is cleaned by trim alone)
isBlankRow_Trimmed(headers, r) ==
    \A k \in 1..Len(headers) : Trim(TextAt(r.v, k)) = <<>>

isBlankRow(headers, r) ==
    \A k \in 1..Len(headers) : cleanForBlankCheck(TextAt(r.v, k)) = <<>>

\* findNameIndex: the first header that is one of the exact names, else the
\* first that contains 姓名 or is "name" in any letter case, else none (0)
ExactNames ==
    {NAME, <<"N", "a", "m", "e">>, <<"n", "a", "m", "e">>,
     <<"yuan", "gong", "xing", "ming">>, <<"zhong", "wen", "xing", "ming">>}

AnyCaseName ==
    {<<x1, x2, x3, x4>> : x1 \in {"N", "n"}, x2 \in {"A", "a"}, x3 \in {"M", "m"}, x4 \in {"E", "e"}}

First(S) == IF S = {} THEN 0 ELSE CHOOSE k \in S : \A j \in S : k <= j

findNameIndex(headers) ==
    LET exact == {k \in 1..Len(headers) : Trim(headers[k]) # <<>> /\ Trim(headers[k]) \in ExactNames}
        loose == {k \in 1..Len(headers) :
                    /\ Trim(headers[k]) # <<>>
                    /\ (Includes(Trim(headers[k]), NAME) \/ Trim(headers[k]) \in AnyCaseName)}
    IN IF exact # {} THEN First(exact) ELSE First(loose)

\* the loop of calcAttendance over dateCols[from..]: <<shouldDays, actDays>>
RECURSIVE CalcLoop(_, _, _, _, _)
CalcLoop(headers, dateCols, row, from, acc) ==
    IF from > Len(dateCols) THEN acc
    ELSE LET k == dateCols[from]
             next ==
               IF BlankHeader(headers, k) THEN acc
               ELSE IF k < 1 \/ k > Len(row.v) THEN acc
               ELSE IF isShouldAttendCell(row.v[k], buildExcludeSet)
                    THEN <<acc[1] + 1, IF AttAt(row.att, k) # 0 THEN acc[2] + 1 ELSE acc[2]>>
                    ELSE acc
         IN CalcLoop(headers, dateCols, row, from + 1, next)

\* (variant: a row without att array is summarized too)
calcAttendance_AnyRow(headers, dateCols, row, sheetName) ==
    IF ~Includes(Trim(sheetName), P_SCHEDULE) THEN Null
    ELSE IF dateCols = Null \/ dateCols.some = <<>> THEN Null
    ELSE IF headers = <<>> THEN Null
    ELSE LET days == CalcLoop(headers, dateCols.some, row, 1, <<0, 0>>)
             rate == IF days[1] # 0 THEN Quotient(days[2], days[1]) ELSE Zero
         IN AttendanceSummary(rate, days[2], days[1])

\* calcAttendance(headers, dateCols, row, { sheetName }): Null for undefined
calcAttendance(headers, dateCols, row, sheetName) ==
    IF ~Includes(Trim(sheetName), P_SCHEDULE) THEN Null
    ELSE IF dateCols = Null \/ dateCols.some = <<>> THEN Null
    ELSE IF headers = <<>> THEN Null
    ELSE IF ~HasAtt(row.att) THEN Null
    ELSE LET days == CalcLoop(headers, dateCols.some, row, 1, <<0, 0>>)
             rate == IF days[1] # 0 THEN Quotient(days[2], days[1]) ELSE Zero
         IN AttendanceSummary(rate, days[2], days[1])

\* the raw rows that are not blank, in order
RECURSIVE NonBlank(_, _)
NonBlank(headers, rows) ==
    IF rows = <<>> THEN <<>>
    ELSE IF isBlankRow(headers, Head(rows)) THEN NonBlank(headers, Tail(rows))
         ELSE <<Head(rows)>> \o NonBlank(headers, Tail(rows))

\* the object built for one raw row: its cells by key (a later column of the
\* same key overwrites an earlier one, and 姓名 is set from the name column)
RowCellsByKey(headers, r, nameIdx) ==
    LET keys == {KeyOf(headers, k) : k \in 1..Len(headers)}
        last(key) == CHOOSE k \in 1..Len(headers) :
                        /\ KeyOf(headers, k) = key
                        /\ \A j \in 1..Len(headers) : KeyOf(headers, j) = key => j <= k
        byKey == [key \in keys |-> TextAt(r.v, last(key))]
    IN IF nameIdx = 0 THEN byKey
       ELSE [key \in keys \cup {NAME} |->
               IF key = NAME
               THEN IF nameIdx \in 1..Len(r.v) THEN r.v[nameIdx]
                    ELSE IF NAME \in keys THEN byKey[NAME] ELSE <<>>
               ELSE byKey[key]]

\* the indices of a set of columns, ascending
RECURSIVE Ascending(_)
Ascending(S) ==
    IF S = {} THEN <<>>
    ELSE LET k == CHOOSE x \in S : \A y \in S : x <= y IN <<k>> \o Ascending(S \ {k})

\* String(n) of a natural number
RECURSIVE ToDecimal(_)
ToDecimal(n) == IF n < 10 THEN <<Digit(n)>> ELSE ToDecimal(n \div 10) \o <<Digit(n % 10)>>

\* (variant: the id is made of the row's index in payload.rows)
gasPayloadToRows_RawIndex(p, disableAttendance, sheetName) ==
    LET raw == Ascending({i \in 1..Len(p.rows) : ~isBlankRow(p.headers, p.rows[i])})
        nameIdx == findNameIndex(p.headers)
    IN [idx \in 1..Len(raw) |->
          [id |-> <<"gas_">> \o ToDecimal(raw[idx] - 1),
           cells |-> RowCellsByKey(p.headers, p.rows[raw[idx]], nameIdx),
           att |-> p.rows[raw[idx]].att,
           attendance |-> IF disableAttendance THEN Null
                          ELSE calcAttendance(p.headers, p.dateCols, p.rows[raw[idx]], sheetName)]]

\* gasPayloadToRows(payload, { disableAttendance, sheetName }).rows; the map
\* callback gets the index in the filtered array
gasPayloadToRows(p, disableAttendance, sheetName) ==
    LET kept == NonBlank(p.headers, p.rows)
        nameIdx == findNameIndex(p.headers)
    IN [idx \in 1..Len(kept) |->
          [id |-> <<"gas_">> \o ToDecimal(idx - 1),
           cells |-> RowCellsByKey(p.headers, kept[idx], nameIdx),
           att |-> kept[idx].att,
           attendance |-> IF disableAttendance THEN Null
                          ELSE calcAttendance(p.headers, p.dateCols, kept[idx], sheetName)]]

\* (row as any)[hk] as the classifier and String(x ?? '') read it: '' when
\* the row has no such key
RowGet(row, hk) == IF hk \in DOMAIN row.cells THEN row.cells[hk] ELSE <<>>

Digits == {"0", "1", "2", "3", "4", "5", "6", "7", "8", "9"}

\* iso.match(/^\d{4}-\d{2}-\d{2}$/)
IsISODate(iso) ==
    /\ Len(iso) = 10
    /\ iso[5] = "-" /\ iso[8] = "-"
    /\ \A k \in {1, 2, 3, 4, 6, 7, 9, 10} : iso[k] \in Digits

\* dateCols of the payload, or inferred from headersISO when there are none
effectiveDateCols(p) ==
    LET dateCols == IF p.dateCols # Null THEN p.dateCols.some ELSE <<>> IN
    IF dateCols = <<>> /\ p.headersISO # <<>>
    THEN Ascending({k \in 1..Len(p.headersISO) : IsISODate(p.headersISO[k])})
    ELSE dateCols

\* the loop of doQuery's forEach over dateCols[from..]: <<expected, attended>>
RECURSIVE QueryLoop(_, _, _, _, _)
QueryLoop(headers, dateCols, row, from, acc) ==
    IF from > Len(dateCols) THEN acc
    ELSE LET k == dateCols[from]
             cellValue == RowGet(row, headers[k])
             next ==
               IF BlankHeader(headers, k) THEN acc
               ELSE IF ~isShouldAttendCell(cellValue, buildExcludeForAttRateSet) THEN acc
               ELSE <<acc[1] + 1,
                      IF isActualAttendCell(HasAtt(row.att), AttAt(row.att, k), cellValue,
                                            buildExcludeFromAbsSet)
                      THEN acc[2] + 1 ELSE acc[2]>>
         IN QueryLoop(headers, dateCols, row, from + 1, next)

\* (variant: the rate is attended / expected whatever expected is)
RowSummary_NoGuard(headers, dateCols, row, page) ==
    LET days == IF ~isHoursPage(page) /\ Includes(page, P_SCHEDULE) /\ dateCols # <<>>
                THEN QueryLoop(headers, dateCols, row, 1, <<0, 0>>)
                ELSE <<0, 0>>
    IN AttendanceSummary(Quotient(days[2], days[1]), days[2], days[1])

\* the summary doQuery gives a row that has none yet
RowSummary(headers, dateCols, row, page) ==
    LET days == IF ~isHoursPage(page) /\ Includes(page, P_SCHEDULE) /\ dateCols # <<>>
                THEN QueryLoop(headers, dateCols, row, 1, <<0, 0>>)
                ELSE <<0, 0>>
        rate == IF days[1] > 0 THEN Quotient(days[2], days[1]) ELSE Zero
    IN AttendanceSummary(rate, days[2], days[1])

\* doQuery: the rows it passes to setResult
QueryRows(p, page) ==
    LET normalized == gasPayloadToRows(p, isHoursPage(page), page)
        dateCols == effectiveDateCols(p)
    IN [idx \in 1..Len(normalized) |->
          IF normalized[idx].attendance # Null THEN normalized[idx]
          ELSE [normalized[idx] EXCEPT
                  !.attendance = RowSummary(p.headers, dateCols, normalized[idx], page)]]

\* getNameFromRow: r.name ?? r['姓名'] ?? '', trimmed, or （未命名）
getNameFromRow(r) ==
    LET nameKey == <<"n", "a", "m", "e">>
        v == IF nameKey \in DOMAIN r.cells THEN r.cells[nameKey] ELSE RowGet(r, NAME)
    IN IF Trim(v) # <<>> THEN Trim(v) ELSE UNNAMED

\* the keys of a Map filled in the order of the rows: each name once, where
\* it first appears
RECURSIVE FirstSeen(_, _)
FirstSeen(names, seen) ==
    IF names = <<>> THEN <<>>
    ELSE IF Head(names) \in seen THEN FirstSeen(Tail(names), seen)
         ELSE <<Head(names)>> \o FirstSeen(Tail(names), seen \cup {Head(names)})

\* the identity of date column k: headersISO[ci], else the header text
DateIdentity(headers, headersISO, k) ==
    IF Trim(TextAt(headersISO, k)) # <<>> THEN Trim(TextAt(headersISO, k))
    ELSE Trim(headers[k])

\* the visits of the loops `for row of personRows / for ci of cols` that get
\* past the header test and the should-attend test: <<row, column>>
ShouldVisits(headers, dateCols, personRows) ==
    {<<i, j>> \in (1..Len(personRows)) \X (1..Len(dateCols)) :
        /\ ~BlankHeader(headers, dateCols[j])
        /\ isShouldAttendCell(RowGet(personRows[i], headers[dateCols[j]]),
                              buildExcludeForAttRateSet)}

\* (variant: the attended test does not wait for the should-attend test)
AttendedVisits_Unnested(headers, dateCols, personRows) ==
    {w \in (1..Len(personRows)) \X (1..Len(dateCols)) :
        LET row == personRows[w[1]]
            k == dateCols[w[2]]
        IN /\ ~BlankHeader(headers, k)
           /\ isActualAttendCell(HasAtt(row.att), AttAt(row.att, k),
                                 RowGet(row, headers[k]), buildExcludeFromAbsSet)}

\* those of them whose cell passes isActualAttendCell
AttendedVisits(headers, dateCols, personRows) ==
    {w \in ShouldVisits(headers, dateCols, personRows) :
        LET row == personRows[w[1]]
            k == dateCols[w[2]]
        IN isActualAttendCell(HasAtt(row.att), AttAt(row.att, k),
                              RowGet(row, headers[k]), buildExcludeFromAbsSet)}

\* (variant: expected and attended are counted per visit, not per date)
PersonDays_PerVisit(headers, headersISO, dateCols, personRows) ==
    <<Cardinality(ShouldVisits(headers, dateCols, personRows)),
      Cardinality(AttendedVisits(headers, dateCols, personRows))>>

\* refreshWorstAttendance: expectedSet.size and attendedSet.size
PersonDays(headers, headersISO, dateCols, personRows) ==
    LET id(w) == DateIdentity(headers, headersISO, dateCols[w[2]])
        expectedSet == {id(w) : w \in ShouldVisits(headers, dateCols, personRows)}
        attendedSet == {id(w) : w \in AttendedVisits(headers, dateCols, personRows)}
    IN <<Cardinality(expectedSet), Cardinality(attendedSet)>>

\* Array.prototype.filter: the rows whose index is in S, in order
RowsAt(rows, S) == LET idx == Ascending(S) IN [i \in 1..Len(idx) |-> rows[idx[i]]]

\* the rows of one name, as byName collects them
RowsNamed(rows, names, nm) == RowsAt(rows, {i \in 1..Len(rows) : names[i] = nm})

\* The collation of the characters that occur in ISO dates, date labels and
\* names: punctuation, then digits, then letters
CollationOrder ==
    <<SP, "-", "/", "0", "1", "2", "3", "4", "5", "6", "7", "8", "9", "a", "b", "c", "d", "e", "f", "g">>

CharRank(c) ==
    IF \E k \in 1..Len(CollationOrder) : CollationOrder[k] = c
    THEN CHOOSE k \in 1..Len(CollationOrder) : CollationOrder[k] = c
    ELSE Len(CollationOrder) + 1

\* a.localeCompare(b): -1, 0 or 1, character by character
RECURSIVE localeCompare(_, _)
localeCompare(a, b) ==
    IF a = <<>> /\ b = <<>> THEN 0
    ELSE IF a = <<>> THEN -1
    ELSE IF b = <<>> THEN 1
    ELSE IF CharRank(Head(a)) < CharRank(Head(b)) THEN -1
    ELSE IF CharRank(Head(a)) > CharRank(Head(b)) THEN 1
    ELSE localeCompare(Tail(a), Tail(b))

\* the value of a run of digits, and the run at the head of a string
RECURSIVE DigitsValue(_, _)
DigitsValue(s, acc) ==
    IF s = <<>> \/ Head(s) \notin Digits THEN acc
    ELSE DigitsValue(Tail(s), 10 * acc + (CharRank(Head(s)) - CharRank("0")))

RECURSIVE DropDigits(_)
DropDigits(s) == IF s = <<>> \/ Head(s) \notin Digits THEN s ELSE DropDigits(Tail(s))

\* a.localeCompare(b, 'zh-Hant', { numeric: true, sensitivity: 'base' }): as
\* localeCompare, but a run of digits is compared by its value
RECURSIVE localeCompareNumeric(_, _)
localeCompareNumeric(a, b) ==
    IF a = <<>> /\ b = <<>> THEN 0
    ELSE IF a = <<>> THEN -1
    ELSE IF b = <<>> THEN 1
    ELSE IF Head(a) \in Digits /\ Head(b) \in Digits
         THEN IF DigitsValue(a, 0) < DigitsValue(b, 0) THEN -1
              ELSE IF DigitsValue(a, 0) > DigitsValue(b, 0) THEN 1
              ELSE localeCompareNumeric(DropDigits(a), DropDigits(b))
    ELSE IF CharRank(Head(a)) < CharRank(Head(b)) THEN -1
    ELSE IF CharRank(Head(a)) > CharRank(Head(b)) THEN 1
    ELSE localeCompareNumeric(Tail(a), Tail(b))

\* (variant: a.summary.rate - b.summary.rate <= 0 puts a first)
RateBefore_OrEqual(a, b) == ~RateLT(b.summary.rate, a.summary.rate)

\* the comparator of the ranking: a.summary.rate - b.summary.rate < 0
RateBefore(a, b) == RateLT(a.summary.rate, b.summary.rate)

\* the comparator of dateList.sort
DateBefore(a, b) ==
    IF a.iso # <<>> /\ b.iso # <<>> /\ a.iso # b.iso
    THEN localeCompare(a.iso, b.iso) < 0
    ELSE localeCompareNumeric(a.label, b.label) < 0

\* the lines of buildAllAttStat are sorted by department, then by name; the
\* sheets of the model have no department column
NameLineBefore(a, b) == localeCompareNumeric(a.name, b.name) < 0

\* the comparators of LeaveStatPanel.data: of a tag's date labels, and of
\* the entries by tag
LabelBefore(a, b) == localeCompareNumeric(a, b) < 0
TagBefore(a, b) == localeCompareNumeric(a.tag, b.tag) < 0

\* the comparators handed to Array.prototype.sort: negative for (a, b)
Before(order, a, b) ==
    CASE order = "rate" -> RateBefore(a, b)
      [] order = "date" -> DateBefore(a, b)
      [] order = "name" -> NameLineBefore(a, b)
      [] order = "label" -> LabelBefore(a, b)
      [] order = "tag" -> TagBefore(a, b)

\* Array.prototype.sort with a comparator is stable: each element in turn is
\* put behind the last element of the sorted part that is not after it
InsertSorted(sorted, x, order) ==
    LET stop == {j \in 1..Len(sorted) : ~Before(order, x, sorted[j])}
        at == IF stop = {} THEN 0 ELSE CHOOSE j \in stop : \A i \in stop : i <= j
    IN SubSeq(sorted, 1, at) \o <<x>> \o SubSeq(sorted, at + 1, Len(sorted))

Sort(list, order) ==
    LET sortedTo[i \in 0..Len(list)] ==
            IF i = 0 THEN <<>> ELSE InsertSorted(sortedTo[i - 1], list[i], order)
    IN sortedTo[Len(list)]

\* refreshWorstAttendance: the list it passes to setAttAll
WorstList(p, source) ==
    LET gRows == gasPayloadToRows(p, TRUE, source)
        dateCols == effectiveDateCols(p)
        rowNames == [i \in 1..Len(gRows) |-> getNameFromRow(gRows[i])]
        names == FirstSeen(rowNames, {})
        days(nm) == PersonDays(p.headers, p.headersISO, dateCols,
                               RowsNamed(gRows, rowNames, nm))
        entry(nm) == [name |-> nm,
                      summary |-> AttendanceSummary(Quotient(days(nm)[2], days(nm)[1]),
                                                    days(nm)[2], days(nm)[1])]
        counted == RowsAt(names, {i \in 1..Len(names) : days(names[i])[1] # 0})
        list == [i \in 1..Len(counted) |-> entry(counted[i])]
    IN IF gRows = <<>> \/ dateCols = <<>> THEN <<>>
       ELSE Sort(list, "rate")

\* attWorst5 and attBest5
Reverse(q) == [i \in 1..Len(q) |-> q[Len(q) + 1 - i]]
Max(a, b) == IF a >= b THEN a ELSE b
Min(a, b) == IF a <= b THEN a ELSE b
attWorst5(list) == SubSeq(list, 1, Min(5, Len(list)))
attBest5(list) ==
    IF list = <<>> THEN <<>>
    ELSE Reverse(SubSeq(list, Max(0, Len(list) - 5) + 1, Len(list)))

\* String(Number(dd)) for two digits: the leading zero is dropped
NumberOf(dd) == IF dd[1] = "0" THEN <<dd[2]>> ELSE dd

fmtMDFromISO(iso) ==
    IF IsISODate(iso) THEN NumberOf(SubSeq(iso, 6, 7)) \o <<"/">> \o NumberOf(SubSeq(iso, 9, 10))
    ELSE iso

\* the value of useMemo dateList for its three inputs
DateListOf(dateCols, headersISO, headers) ==
    LET list == [j \in 1..Len(dateCols) |->
                    LET iso == Trim(TextAt(headersISO, dateCols[j])) IN
                    [ci |-> dateCols[j],
                     iso |-> iso,
                     label |-> IF iso # <<>> THEN fmtMDFromISO(iso)
                               ELSE TextAt(headers, dateCols[j])]]
    IN Sort(list, "date")

\* the value of a date in the two selects: d.iso || `idx_${d.ci}`
DateValue(d) == IF d.iso # <<>> THEN d.iso ELSE <<"idx_", Digit(d.ci)>>

\* useMemo dateIndicesUpToEnd
dateIndicesUpToEnd ==
    LET all == [j \in 1..Len(dateList) |-> dateList[j].ci]
        found == {j \in 1..Len(dateList) : DateValue(dateList[j]) = attEndDate}
    IN IF dateList = <<>> THEN gasDateCols
       ELSE IF attEndDate = <<>> THEN all
       ELSE IF found = {} THEN all
       ELSE SubSeq(all, 1, First(found))

\* row['姓名'] as the range statistics read it
NameCell(r) == Trim(RowGet(r, NAME))

\* computeForCols of buildSingleAttStat and of buildAllAttStat:
\* <<shouldDays, actDays>>
computeForCols(personRows, colIndices) ==
    <<Cardinality(ShouldVisits(gasHeaders, colIndices, personRows)),
      Cardinality(AttendedVisits(gasHeaders, colIndices, personRows))>>

\* the guards buildSingleAttStat and buildAllAttStat share
StatReady ==
    /\ Includes(sheetPage, P_SCHEDULE)
    /\ gasRows # <<>>
    /\ gasDateCols # <<>>
    /\ dateList # <<>>

\* one line of a built statistic
StatLine(nm, days) == [name |-> nm, shouldDays |-> days[1], actDays |-> days[2]]

\* the payloads of the model.  Short sheets: a name column and two date
\* columns 3/1 and 3/2, up to MaxRows rows of two employees.  Tall sheets: a
\* name column and one date column, one row for each of up to MaxStaff
\* employees.
H1 == <<"3", "/", "1">>
H2 == <<"3", "/", "2">>
ISO1 == <<"2", "0", "2", "5", "-", "0", "3", "-", "0", "1">>
ISO2 == <<"2", "0", "2", "5", "-", "0", "3", "-", "0", "2">>
CellTime == <<"9", ":", "0", "0">>
CellCode == <<"A", "1">>
CellOff == <<"xiu">>

StaffNames == <<"a", "b", "c", "d", "e", "f", "g">>

Layouts ==
    {[headers |-> <<NAME, H1, H2>>, headersISO |-> iso, dateCols |-> dc] :
        iso \in {<<<<>>, ISO1, ISO2>>}, dc \in {Null, Some(<<>>), Some(<<2, 3>>)}}
    \cup {[headers |-> <<NAME, H1, H2>>, headersISO |-> <<>>, dateCols |-> Some(<<2, 3>>)],
          [headers |-> <<NAME, H1, H2>>, headersISO |-> <<<<>>, ISO1, H2>>, dateCols |-> Null]}

\* the cells and the att array of a short row: 3/1, 3/2, att
ShortCells ==
    {<<CellCode, CellTime, Some(<<0, 0, 1>>)>>, <<CellTime, CellOff, Some(<<0, 0, 1>>)>>,
     <<CellCode, CellOff, Null>>}

\* the rows of employee a, and those of employee b that carry an att array
ShortRows ==
    {[v |-> <<<<"a">>, c[1], c[2]>>, att |-> c[3]] : c \in ShortCells}
      \cup {[v |-> <<<<"b">>, c[1], c[2]>>, att |-> c[3]] : c \in {d \in ShortCells : d[3] # Null}}

SeqsUpTo(S, n) == UNION {[1..k -> S] : k \in 0..n}

ShortPayloads ==
    {[headers |-> l.headers, headersISO |-> l.headersISO, dateCols |-> l.dateCols, rows |-> rs] :
        l \in Layouts, rs \in SeqsUpTo(ShortRows, MaxRows)}

TallPayloads ==
    {[headers |-> <<NAME, H1>>, headersISO |-> <<<<>>, ISO1>>, dateCols |-> Some(<<2>>),
      rows |-> [k \in 1..Len(fs) |-> [v |-> <<<<StaffNames[k]>>, CellTime>>,
                                      att |-> Some(<<0, fs[k]>>)]]] :
        fs \in UNION {[1..k -> {0, 1}] : k \in (MaxRows + 1)..MaxStaff}}

\* Sheets without rows whose three date columns are given by dateCols: the
\* last day of 2024, the first day of 2025 and a column to which the backend
\* gave no ISO date.  The comparator of dateList puts each of the three
\* before the next and the third before the first, and ECMAScript leaves the
\* order implementation-defined for such a comparator; the sheets have the
\* columns in the three orders in which every column already precedes its
\* neighbour, which a sort by insertion and one by runs (V8) both return
\* as they are.
YearEndColumns ==
    <<[header |-> <<"1", "2", "/", "3", "1">>, iso |-> <<"2", "0", "2", "4", "-", "1", "2", "-", "3", "1">>],
      [header |-> <<"1", "/", "1">>, iso |-> <<"2", "0", "2", "5", "-", "0", "1", "-", "0", "1">>],
      [header |-> <<"6", "/", "1">>, iso |-> <<>>]>>

YearEndPayloads ==
    {[headers |-> <<NAME>> \o [k \in 1..3 |-> YearEndColumns[((k + r) % 3) + 1].header],
      headersISO |-> <<<<>>>> \o [k \in 1..3 |-> YearEndColumns[((k + r) % 3) + 1].iso],
      dateCols |-> Some(<<2, 3, 4>>),
      rows |-> <<>>] : r \in 0..2}

\* getUser().name of a user who is not an admin
UserName == <<"a">>

\* doQuery, from the payload gasQuerySheet resolved with to its last setState
DoQueryResult ==
    /\ sheetPc = "fetched"
    /\ gasHeadersISO' = payload.headersISO
    /\ gasDateCols' = effectiveDateCols(payload)
    /\ gasHeaders' = payload.headers
    /\ dateList' = DateListOf(effectiveDateCols(payload), payload.headersISO, payload.headers)
    /\ gasRows' = QueryRows(payload, sheetPage)
    /\ attEndDate' = <<>>
    /\ attName' = <<>>
    /\ attSingleBuilt' = <<>>
    /\ attAllBuilt' = <<>>
    /\ sheetPc' = "queried"
    /\ UNCHANGED <<payload, sheetPage, isAdminView, attAllList>>
    /\ UNCHANGED <<apiVars, dashVars, rowVars, fnVars>>

\* refreshWorstAttendance, from the payload on: setAttAll(list).  It shares
\* no state with doQuery, so the model runs it after doQuery and before the
\* statistic panel is used.
RefreshWorstResult ==
    /\ sheetPc = "queried"
    /\ attAllList' = WorstList(payload, sheetPage)
    /\ sheetPc' = "ranked"
    /\ UNCHANGED <<payload, sheetPage, isAdminView, gasHeaders, gasHeadersISO, gasDateCols,
                   dateList, gasRows, attEndDate, attName, attSingleBuilt, attAllBuilt>>
    /\ UNCHANGED <<apiVars, dashVars, rowVars, fnVars>>

\* the two inputs of the statistic panel; the model chooses them before a
\* statistic is built and after it is cleared
NothingBuilt == attSingleBuilt = <<>> /\ attAllBuilt = <<>>

SetAttEndDate(value) ==
    /\ sheetPc = "ranked"
    /\ NothingBuilt
    /\ value \in {<<>>} \cup {DateValue(dateList[j]) : j \in 1..Len(dateList)}
    /\ attEndDate' = value
    /\ UNCHANGED <<payload, sheetPage, isAdminView, gasHeaders, gasHeadersISO, gasDateCols,
                   dateList, gasRows, attAllList, attName, attSingleBuilt, attAllBuilt, sheetPc>>
    /\ UNCHANGED <<apiVars, dashVars, rowVars, fnVars>>

SetAttName(value) ==
    /\ sheetPc = "ranked"
    /\ NothingBuilt
    /\ isAdminView
    /\ attName' = value
    /\ UNCHANGED <<payload, sheetPage, isAdminView, gasHeaders, gasHeadersISO, gasDateCols,
                   dateList, gasRows, attAllList, attEndDate, attSingleBuilt, attAllBuilt, sheetPc>>
    /\ UNCHANGED <<apiVars, dashVars, rowVars, fnVars>>

\* buildSingleAttStat (attSingleDate is left at '': no single-day line)
buildSingleAttStat ==
    /\ sheetPc = "ranked"
    /\ StatReady
    /\ LET targetName == IF isAdminView THEN Trim(attName) ELSE Trim(UserName)
           personRows == RowsNamed(gasRows, [i \in 1..Len(gasRows) |-> NameCell(gasRows[i])],
                                   targetName)
       IN /\ ~(isAdminView /\ targetName = <<>>)
          /\ attSingleBuilt' =
               IF personRows = <<>> THEN <<>>
               ELSE <<StatLine(targetName, computeForCols(personRows, dateIndicesUpToEnd))>>
    /\ UNCHANGED <<payload, sheetPage, isAdminView, gasHeaders, gasHeadersISO, gasDateCols,
                   dateList, gasRows, attAllList, attEndDate, attName, attAllBuilt, sheetPc>>
    /\ UNCHANGED <<apiVars, dashVars, rowVars, fnVars>>

clearSingleAttStat ==
    /\ sheetPc = "ranked"
    /\ attEndDate' = <<>>
    /\ attSingleBuilt' = <<>>
    /\ UNCHANGED <<payload, sheetPage, isAdminView, gasHeaders, gasHeadersISO, gasDateCols,
                   dateList, gasRows, attAllList, attName, attAllBuilt, sheetPc>>
    /\ UNCHANGED <<apiVars, dashVars, rowVars, fnVars>>

buildAllAttStat ==
    /\ sheetPc = "ranked"
    /\ isAdminView
    /\ StatReady
    /\ LET rowNames == [i \in 1..Len(gasRows) |-> NameCell(gasRows[i])]
           names == FirstSeen(FilterNonEmpty(rowNames), {})
           line(nm) == StatLine(nm, computeForCols(RowsNamed(gasRows, rowNames, nm),
                                                   dateIndicesUpToEnd))
           lines == [i \in 1..Len(names) |-> line(names[i])]
       IN attAllBuilt' = Sort(lines, "name")
    /\ UNCHANGED <<payload, sheetPage, isAdminView, gasHeaders, gasHeadersISO, gasDateCols,
                   dateList, gasRows, attAllList, attEndDate, attName, attSingleBuilt, sheetPc>>
    /\ UNCHANGED <<apiVars, dashVars, rowVars, fnVars>>

clearAllAttStat ==
    /\ sheetPc = "ranked"
    /\ attAllBuilt' = <<>>
    /\ UNCHANGED <<payload, sheetPage, isAdminView, gasHeaders, gasHeadersISO, gasDateCols,
                   dateList, gasRows, attAllList, attEndDate, attName, attSingleBuilt, sheetPc>>
    /\ UNCHANGED <<apiVars, dashVars, rowVars, fnVars>>

\* gasQuerySheet has resolved with a payload; the page still shows its
\* initial state
SheetInit ==
    /\ \/ payload \in ShortPayloads /\ sheetPage = P_SCHEDULE
       \/ payload \in ShortPayloads /\ payload.dateCols = Some(<<2, 3>>) /\ sheetPage = P_RECORD
       \/ payload \in TallPayloads /\ sheetPage = P_SCHEDULE
       \/ payload \in YearEndPayloads /\ sheetPage = P_SCHEDULE
    /\ isAdminView \in BOOLEAN
    /\ gasHeaders = <<>>
    /\ gasHeadersISO = <<>>
    /\ gasDateCols = <<>>
    /\ dateList = <<>>
    /\ gasRows = <<>>
    /\ attAllList = <<>>
    /\ attEndDate = <<>>
    /\ attName = <<>>
    /\ attSingleBuilt = <<>>
    /\ attAllBuilt = <<>>
    /\ sheetPc = "fetched"

SheetNext ==
    \/ DoQueryResult
    \/ RefreshWorstResult
    \/ \E d \in {<<>>, ISO1, ISO2, <<"idx_", "2">>, <<"idx_", "3">>} : SetAttEndDate(d)
    \/ \E n \in {<<"a">>, <<"b", SP>>} : SetAttName(n)
    \/ buildSingleAttStat
    \/ clearSingleAttStat
    \/ buildAllAttStat
    \/ clearAllAttStat

InitSheet == SheetInit /\ ApiIdle /\ DashClosed /\ RowIdle /\ FnIdle
NextSheet == SheetNext
SpecSheet == InitSheet /\ [][NextSheet]_vars

(***************************************************************************)
(* Part 5: gasPayloadToRows on its own, for payloads with blank rows, rows *)
(* shorter and longer than the header row, and every option.               *)
(***************************************************************************)
CellX == <<"x">>

\* raw rows: blank; blank but for invisible characters; blank under the
\* headers with a cell beyond them; three ordinary rows; a row shorter than
\* the headers; a row without a name
NormRows ==
    {[v |-> <<<<>>, <<>>>>, att |-> Null],
     [v |-> <<<<"zwsp">>, <<"nbsp", SP>>>>, att |-> Some(<<0, 1>>)],
     [v |-> <<<<>>, <<SP>>, CellX>>, att |-> Null],
     [v |-> <<<<"a">>, CellTime>>, att |-> Some(<<0, 1>>)],
     [v |-> <<<<"a">>, CellCode>>, att |-> Null],
     [v |-> <<<<"b">>, CellOff>>, att |-> Some(<<>>)],
     [v |-> <<<<"a">>>>, att |-> Some(<<0, 1>>)],
     [v |-> <<<<>>, CellTime>>, att |-> Some(<<0, 0>>)]}

NormPayloads ==
    {[headers |-> h, headersISO |-> <<>>, dateCols |-> dc, rows |-> rs] :
        h \in {<<NAME, H1>>, <<>>},
        dc \in {Null, Some(<<>>), Some(<<2>>)},
        rs \in SeqsUpTo(NormRows, MaxRows)}

\* gasPayloadToRows(payload, { disableAttendance, sheetName })
Normalize ==
    /\ normInput # Null
    /\ normOut = Null
    /\ normOut' = Some(gasPayloadToRows(normInput.payload, normInput.disableAttendance,
                                        normInput.sheetName))
    /\ UNCHANGED <<normInput, leaveInput, leaveData, keyInput, keyOut, apiVars, dashVars,
                   rowVars, sheetVars>>

NormInit ==
    /\ normInput \in [payload : NormPayloads, disableAttendance : BOOLEAN,
                       sheetName : {P_SCHEDULE, P_RECORD}]
    /\ normOut = Null
    /\ leaveInput = Null
    /\ leaveData = Null
    /\ keyInput = Null
    /\ keyOut = Null

NormNext == Normalize

InitNorm == NormInit /\ ApiIdle /\ DashClosed /\ RowIdle /\ SheetIdle
NextNorm == NormNext
SpecNorm == InitNorm /\ [][NextNorm]_vars

(***************************************************************************)
(* Part 6: the leave statistics of LeaveStatPanel, its memos rows and data, *)
(* over schedule sheets (a column per date) and record sheets (a row per   *)
(* date).                                                                  *)
(***************************************************************************)
DATE == <<"ri4", "qi">>
LEAVE == <<"jia4", "bie">>
STATUS == <<"zhuang", "tai">>

\* String(new Date().getFullYear())
FullYear == <<"2", "0", "2", "6">>

\* the first header that, trimmed, is not empty and contains one of the words
FindKey(headers, words) ==
    LET hits == {k \in 1..Len(headers) :
                    \E w \in words : Trim(headers[k]) # <<>> /\ Includes(Trim(headers[k]), w)}
    IN IF hits = {} THEN Null ELSE Some(Trim(headers[First(hits)]))

findLeaveKey(headers) == FindKey(headers, {LEAVE, STATUS})
findDateKey(headers) == FindKey(headers, {DATE})

\* (`0${m}`).slice(-2)
Pad2(d) == IF Len(d) = 1 THEN <<"0">> \o d ELSE d

LeadDigits(s) == SubSeq(s, 1, Len(s) - Len(DropDigits(s)))
AfterFirst(s) == IF s = <<>> THEN <<>> ELSE Tail(s)

\* guessISOFromText(s): YYYY/M/D and YYYY-M-D, M/D and M-D of this year,
\* YYYY年M月D日 and M月D日; '' for any other text
guessISOFromText(s) ==
    LET t == Trim(s)
        d1 == LeadDigits(t)
        r1 == DropDigits(t)
        d2 == LeadDigits(AfterFirst(r1))
        r2 == DropDigits(AfterFirst(r1))
        d3 == LeadDigits(AfterFirst(r2))
        r3 == DropDigits(AfterFirst(r2))
        sep(r) == r # <<>> /\ Head(r) \in {"/", "-"}
        ymd == /\ Len(d1) = 4 /\ sep(r1) /\ Len(d2) \in 1..2
               /\ sep(r2) /\ Len(d3) \in 1..2 /\ r3 = <<>>
        md == Len(d1) \in 1..2 /\ sep(r1) /\ Len(d2) \in 1..2 /\ r2 = <<>>
        hasYear == Len(d1) = 4 /\ r1 # <<>> /\ Head(r1) = "nian"
        u == IF hasYear THEN TrimStart(Tail(r1)) ELSE t
        mo == LeadDigits(u)
        v == DropDigits(u)
        w == TrimStart(AfterFirst(v))
        dd == LeadDigits(w)
        x == DropDigits(w)
        cjk == /\ Len(mo) \in 1..2 /\ v # <<>> /\ Head(v) = "yue"
               /\ Len(dd) \in 1..2 /\ x = <<"ri">>
    IN IF t = <<>> THEN <<>>
       ELSE IF ymd THEN d1 \o <<"-">> \o Pad2(d2) \o <<"-">> \o Pad2(d3)
       ELSE IF md THEN FullYear \o <<"-">> \o Pad2(d1) \o <<"-">> \o Pad2(d2)
       ELSE IF cjk THEN (IF hasYear THEN d1 ELSE FullYear) \o <<"-">> \o Pad2(mo)
                        \o <<"-">> \o Pad2(dd)
       ELSE <<>>

RECURSIVE Flatten(_)
Flatten(q) == IF q = <<>> THEN <<>> ELSE Head(q) \o Flatten(Tail(q))

\* Array.prototype.join('、')
RECURSIVE Join(_)
Join(list) ==
    IF list = <<>> THEN <<>>
    ELSE IF Len(list) = 1 THEN list[1]
    ELSE list[1] \o <<"dun">> \o Join(Tail(list))

\* useMemo rows of LeaveStatPanel
LeaveStatPanel_rows(in) ==
    LET effectiveMode == IF in.isAdmin THEN in.mode ELSE "single"
        effectiveSingleName == IF in.isAdmin THEN Trim(in.singleName) ELSE Trim(in.userName)
    IN IF effectiveMode = "all" THEN in.rowsAll
       ELSE IF effectiveSingleName # <<>>
            THEN RowsAt(in.rowsAll, {i \in 1..Len(in.rowsAll) :
                                        getNameFromRow(in.rowsAll[i]) = effectiveSingleName})
       ELSE in.rowsSingle

\* the calls tagDatesMap.get(tag).add(md) of the schedule branch, in order:
\* for each date column, for each row, for each token of the cell
MatrixAdds(headers, headersISO, dateCols, rows) ==
    Flatten([j \in 1..Len(dateCols) |->
        LET col == dateCols[j]
            iso == TextAt(headersISO, col)
            md == IF iso # <<>> THEN fmtMDFromISO(iso) ELSE TextAt(headers, col)
        IN Flatten([i \in 1..Len(rows) |->
               LET toks == tokenizeCell(RowGet(rows[i], TextAt(headers, col)))
               IN [t \in 1..Len(toks) |-> [tag |-> toks[t], md |-> md]]])])

\* the same calls of the record branch: for each row, for each token of its
\* leave cell
RecordAdds(rows, dateKey, leaveKey) ==
    Flatten([i \in 1..Len(rows) |->
        LET ds == Trim(RowGet(rows[i], dateKey))
            iso == guessISOFromText(ds)
            md == IF iso # <<>> THEN fmtMDFromISO(iso) ELSE ds
            tags == tokenizeCell(RowGet(rows[i], leaveKey))
        IN [t \in 1..Len(tags) |-> [tag |-> tags[t], md |-> md]]])

\* the labels added for one tag, in order
RECURSIVE LabelsAdded(_, _)
LabelsAdded(adds, tag) ==
    IF adds = <<>> THEN <<>>
    ELSE IF Head(adds).tag = tag THEN <<Head(adds).md>> \o LabelsAdded(Tail(adds), tag)
         ELSE LabelsAdded(Tail(adds), tag)

\* (variant: the labels of a tag are kept in an array, not in a Set)
TagEntries_Array(adds) ==
    LET tags == FirstSeen([k \in 1..Len(adds) |-> adds[k].tag], {})
        entry(tag) == LET list == Sort(LabelsAdded(adds, tag), "label")
                      IN [tag |-> tag, dates |-> Join(list), count |-> Len(list)]
    IN Sort([k \in 1..Len(tags) |-> entry(tags[k])], "tag")

\* Array.from(tagDatesMap.entries()).map(...).sort(...): a Map and a Set keep
\* their keys in the order of first insertion
TagEntries(adds) ==
    LET tags == FirstSeen([k \in 1..Len(adds) |-> adds[k].tag], {})
        entry(tag) == LET list == Sort(FirstSeen(LabelsAdded(adds, tag), {}), "label")
                      IN [tag |-> tag, dates |-> Join(list), count |-> Len(list)]
    IN Sort([k \in 1..Len(tags) |-> entry(tags[k])], "tag")

\* useMemo data of LeaveStatPanel
LeaveStatPanel_data(in) ==
    LET rows == LeaveStatPanel_rows(in)
        isSchedule == Includes(in.sheetName, P_SCHEDULE)
        isRecord == Includes(in.sheetName, P_RECORD)
        dateKey == findDateKey(in.headers)
        leaveKey == findLeaveKey(in.headers)
    IN IF rows = <<>> THEN <<>>
       ELSE IF isSchedule /\ in.dateCols # <<>>
            THEN TagEntries(MatrixAdds(in.headers, in.headersISO, in.dateCols, rows))
       ELSE IF isRecord
            THEN IF dateKey = Null \/ leaveKey = Null THEN <<>>
                 ELSE TagEntries(RecordAdds(rows, dateKey.some, leaveKey.some))
       ELSE <<>>

ISO3 == <<"2", "0", "2", "5", "-", "1", "2", "-", "0", "1">>

\* schedule sheets: two date columns whose labels are the headers, the same
\* day twice, or 12/1 before 3/1; cells with one tag, two tags and none
MatrixSheets ==
    {[headers |-> <<NAME, H1, H2>>, headersISO |-> hi, dateCols |-> dc,
      rows |-> gasPayloadToRows([headers |-> <<NAME, H1, H2>>, headersISO |-> hi,
                                 dateCols |-> Some(dc), rows |-> rs], TRUE, P_SCHEDULE)] :
        hi \in {<<>>, <<<<>>, ISO1, ISO1>>, <<<<>>, ISO3, ISO1>>},
        dc \in {<<2, 3>>, <<>>},
        rs \in SeqsUpTo({[v |-> <<<<"a">>, <<"b">>, <<"b", ";", "a">>>>, att |-> Null],
                         [v |-> <<<<"a">>, <<"a", "1", "0", ",", "a", "2">>, <<>>>>, att |-> Null],
                         [v |-> <<<<"b">>, <<"a", "2">>, <<"b">>>>, att |-> Null],
                         [v |-> <<<<"b">>, <<>>, <<"a">>>>, att |-> Null]}, MaxRows)}

\* record sheets, with and without a leave column: dates written as
\* YYYY/M/D, M/D, M-DD, M月D日 and a text that is no date
RecordSheets ==
    {[headers |-> h, headersISO |-> <<>>, dateCols |-> <<>>,
      rows |-> gasPayloadToRows([headers |-> h, headersISO |-> <<>>, dateCols |-> Null,
                                 rows |-> rs], TRUE, P_RECORD)] :
        h \in {<<NAME, DATE, LEAVE>>, <<NAME, DATE>>},
        rs \in SeqsUpTo({[v |-> <<<<"a">>, <<"2", "0", "2", "5", "/", "3", "/", "1">>, <<"b">>>>,
                          att |-> Null],
                         [v |-> <<<<"a">>, H1, <<"b", ";", "a">>>>, att |-> Null],
                         [v |-> <<<<"b">>, <<"1", "2", "-", "0", "1">>, <<"a">>>>, att |-> Null],
                         [v |-> <<<<"b">>, <<"3", "yue", "2", "ri">>, <<"a", "2">>>>, att |-> Null],
                         [v |-> <<<<"a">>, <<"d">>, <<"a">>>>, att |-> Null]}, MaxRows)}

LeaveInputs ==
    {[headers |-> sh.headers, headersISO |-> sh.headersISO, dateCols |-> sh.dateCols,
      rowsAll |-> sh.rows, rowsSingle |-> single, isAdmin |-> adm, userName |-> UserName,
      sheetName |-> page, mode |-> mode, singleName |-> nm] :
        sh \in MatrixSheets \cup RecordSheets, single \in {<<>>},
        adm \in BOOLEAN, page \in {P_SCHEDULE, P_RECORD},
        mode \in {"single", "all"}, nm \in {<<>>, <<"b">>}}

\* the panel is rendered: its memo data is evaluated
LeaveData ==
    /\ leaveInput # Null
    /\ leaveData = Null
    /\ leaveData' = Some(LeaveStatPanel_data(leaveInput.some))
    /\ UNCHANGED <<leaveInput, normInput, normOut, keyInput, keyOut, apiVars, dashVars,
                   rowVars, sheetVars>>

LeaveInit ==
    /\ leaveInput \in {Some(in) : in \in LeaveInputs}
    /\ leaveData = Null
    /\ normInput = Null
    /\ normOut = Null
    /\ keyInput = Null
    /\ keyOut = Null

LeaveNext == LeaveData

InitLeave == LeaveInit /\ ApiIdle /\ DashClosed /\ RowIdle /\ SheetIdle
NextLeave == LeaveNext
SpecLeave == InitLeave /\ [][NextLeave]_vars

(***************************************************************************)
(* Part 7: the cache keys of gasQuerySheet and gasVerifyLogin for two      *)
(* calls, with arguments that contain the separator of the key.            *)
(***************************************************************************)
\* arguments of gasQuerySheet(warehouse, sheet, name)
QueryArgs ==
    {<<"T">>, <<"T", BAR, "S">>} \X {<<"S">>, <<"S", BAR, "n">>}
        \X {<<>>, <<"n">>, <<"n", SP>>, <<"n", BAR>>}

\* arguments of gasVerifyLogin(name, birthday)
LoginArgs == {<<"n">>, <<"n", SP>>, <<"n", BAR, "1">>} \X {<<"1">>, <<"1", BAR, "1">>}

\* const ck = `${base}|...` of the read for its arguments
CkFor(op, args) ==
    IF op = "querySheet" THEN CkQuerySheet(args[1], args[2], args[3])
    ELSE CkVerifyLogin(args[1], args[2])

\* two calls of one read build their keys
BuildKeys ==
    /\ keyInput # Null
    /\ keyOut = Null
    /\ keyOut' = Some(<<CkFor(keyInput.op, keyInput.first), CkFor(keyInput.op, keyInput.second)>>)
    /\ UNCHANGED <<keyInput, normInput, normOut, leaveInput, leaveData, apiVars, dashVars,
                   rowVars, sheetVars>>

KeysInit ==
    /\ \/ keyInput \in [op : {"querySheet"}, first : QueryArgs, second : QueryArgs]
       \/ keyInput \in [op : {"verifyLogin"}, first : LoginArgs, second : LoginArgs]
    /\ keyOut = Null
    /\ normInput = Null
    /\ normOut = Null
    /\ leaveInput = Null
    /\ leaveData = Null

KeysNext == BuildKeys

InitKeys == KeysInit /\ ApiIdle /\ DashClosed /\ RowIdle /\ SheetIdle
NextKeys == KeysNext
SpecKeys == InitKeys /\ [][NextKeys]_vars

(***************************************************************************)
(* Vocabulary of the properties                                            *)
(***************************************************************************)
\* this step is a call of an exported read; NewCall is the call it adds
CallStep == Len(calls') = Len(calls) + 1
NewCall == calls'[Len(calls')]

\* this step issues a fetch
FetchStep == Len(reqs') = Len(reqs) + 1

\* the requests made so far for a key of an operation, and the pending ones
RequestsFor(op, ck) == {r \in 1..Len(reqs) : reqs[r].op = op /\ reqs[r].ck = ck}
PendingFor(op, ck) == {r \in RequestsFor(op, ck) : reqs[r].state = "pending"}

\* request r settles in this step
SettleStep(r) == reqs[r].state = "pending" /\ reqs'[r].state # "pending"

\* the callers that await request r
Awaiters(r) == {i \in 1..Len(calls) : calls[i].kind = "pending" /\ calls[i].req = r}

\* the key a call of op with these arguments is looked up under
CkOf(op, args) ==
    CASE op = "getSheets" -> CkWarehouse(args[1])
      [] op = "getWarehouseId" -> CkWarehouse(args[1])
      [] op = "findWarehouseByName" -> CkFindWarehouseByName(Trim(args[1]))
      [] op = "verifyLogin" -> CkVerifyLogin(args[1], args[2])
      [] op = "querySheet" -> CkQuerySheet(args[1], args[2], args[3])

(***************************************************************************)
(* C1  In-flight coalescing.  A call made while an earlier call with the   *)
(* same cache key still awaits its request issues no fetch and awaits that *)
(* same request; and all callers of one request get the same outcome, the  *)
(* value of that request or the error of that request.                     *)
(***************************************************************************)
C1_JoinStep ==
    CallStep =>
        \A i \in 1..Len(calls) :
            (calls[i].kind = "pending" /\ calls[i].op = NewCall.op /\ calls[i].ck = NewCall.ck)
            => /\ reqs' = reqs
               /\ NewCall.req = calls[i].req
               /\ ~NewCall.issued

C1_SameOutcome ==
    \A i, j \in 1..Len(calls) :
        (calls[i].req # 0 /\ calls[i].req = calls[j].req)
        => /\ calls[i].kind = calls[j].kind
           /\ calls[i].src = calls[j].src
           /\ calls[i].kind # "pending" => calls[i].src = calls[i].req

C1_Coalescing == [][C1_JoinStep]_vars /\ []C1_SameOutcome

\* two callers of one fetch have both received its value
C1_Witness ==
    \E i, j \in 1..Len(calls) :
        /\ i < j
        /\ calls[i].issued /\ ~calls[j].issued
        /\ calls[j].req = calls[i].req
        /\ calls[i].kind = "value" /\ calls[j].kind = "value"
        /\ Len(reqs) = 1

(***************************************************************************)
(* C2  At most one underlying request is outstanding for an operation and  *)
(* cache key, in every reachable state.                                    *)
(***************************************************************************)
C2_OneOutstanding ==
    \A r1, r2 \in 1..Len(reqs) :
        (/\ reqs[r1].state = "pending" /\ reqs[r2].state = "pending"
         /\ reqs[r1].op = reqs[r2].op /\ reqs[r1].ck = reqs[r2].ck)
        => r1 = r2

\* a second request for a key is outstanding after the first has settled and
\* its cache entry has expired, with a later caller sharing it
C2_Witness ==
    \E r1, r2 \in 1..Len(reqs) :
        /\ r1 < r2
        /\ reqs[r1].op = reqs[r2].op /\ reqs[r1].ck = reqs[r2].ck
        /\ reqs[r1].state = "resolved" /\ reqs[r2].state = "pending"
        /\ Cardinality(Awaiters(r2)) = 2

(***************************************************************************)
(* C3  Cache TTL.  Original statement: a call that finds an entry of age   *)
(* < TTL returns the cached value without a fetch, and a call that finds   *)
(* an entry of age >= TTL issues a new fetch.                              *)
(***************************************************************************)
C3_FreshServed ==
    \A op \in CachedOps :
        (CallStep /\ NewCall.op = op /\ NewCall.ck # <<>> /\ NewCall.ck \in DOMAIN cache[op]
         /\ now - cache[op][NewCall.ck].ts < TTL(op))
        => /\ NewCall.kind = "value"
           /\ NewCall.src = cache[op][NewCall.ck].value
           /\ UNCHANGED <<reqs, inflight, cache>>

C3_StaleFetches ==
    \A op \in CachedOps :
        (CallStep /\ NewCall.op = op /\ NewCall.ck # <<>> /\ NewCall.ck \in DOMAIN cache[op]
         /\ now - cache[op][NewCall.ck].ts >= TTL(op))
        => FetchStep

C3_Original == [][C3_FreshServed /\ C3_StaleFetches]_vars

(* C3 as amended: a call that finds an entry of age >= TTL issues a new    *)
(* fetch unless a request for its key is already in flight, which it then  *)
(* joins without a fetch.                                                  *)
C3_StaleFetchesOrJoins ==
    \A op \in CachedOps :
        (CallStep /\ NewCall.op = op /\ NewCall.ck # <<>> /\ NewCall.ck \in DOMAIN cache[op]
         /\ now - cache[op][NewCall.ck].ts >= TTL(op))
        => IF PendingFor(op, NewCall.ck) = {}
           THEN FetchStep /\ NewCall.issued /\ reqs'[Len(reqs')].ck = NewCall.ck
           ELSE reqs' = reqs /\ NewCall.req \in PendingFor(op, NewCall.ck)

C3_CacheTTL == [][C3_FreshServed /\ C3_StaleFetchesOrJoins]_vars

\* one key: fetched, served from the cache, and fetched again after expiry
C3_Witness ==
    \E i, j, k \in 1..Len(calls) :
        /\ i < j /\ j < k
        /\ calls[i].ck = calls[j].ck /\ calls[j].ck = calls[k].ck
        /\ calls[i].issued
        /\ calls[j].entry = "fresh" /\ calls[j].why = "hit" /\ calls[j].src = calls[i].req
        /\ calls[k].entry = "stale" /\ calls[k].issued

(***************************************************************************)
(* C4  A request that fails (fetch throws, non-success status, or, for a   *)
(* cached read, a payload that signals an error) leaves the cache as it    *)
(* was, and every caller awaiting it receives the error of that request.   *)
(***************************************************************************)
FailureKind(op, kind) ==
    \/ kind \in {"net", "http"}
    \/ kind = "apperr" /\ op \in CachedOps

C4_FailStep ==
    \A r \in 1..Len(reqs) :
        (SettleStep(r) /\ FailureKind(reqs[r].op, reqs'[r].resp))
        => /\ cache' = cache
           /\ \A i \in Awaiters(r) : calls'[i].kind = "error" /\ calls'[i].src = r

LastFailed(op, ck) ==
    /\ RequestsFor(op, ck) # {}
    /\ \A r \in RequestsFor(op, ck) :
          (\A q \in RequestsFor(op, ck) : q <= r) => reqs[r].state = "rejected"

C5_Removed ==
    \A r \in 1..Len(reqs) :
        SettleStep(r) => reqs[r].ck \notin DOMAIN inflight'[reqs[r].op]

C5_FreshAfterFailure ==
    (CallStep /\ NewCall.ck # <<>> /\ LastFailed(NewCall.op, NewCall.ck))
    => /\ FetchStep
       /\ NewCall.issued
       /\ NewCall.req = Len(reqs')

C5_OnlyPending ==
    \A op \in Ops : \A ck \in DOMAIN inflight[op] :
        /\ inflight[op][ck] \in 1..Len(reqs)
        /\ reqs[inflight[op][ck]].state = "pending"

C5_InflightRemoved == [][C5_Removed /\ C5_FreshAfterFailure]_vars /\ []C5_OnlyPending

\* a request failed, and the next call for its key has a request of its own
C5_Witness ==
    \E i, j \in 1..Len(calls) :
        /\ i < j
        /\ calls[i].op = calls[j].op /\ calls[i].ck = calls[j].ck
        /\ calls[i].kind = "error" /\ calls[i].issued
        /\ reqs[calls[i].req].state = "rejected"
        /\ calls[j].issued /\ calls[j].req # calls[i].req

(***************************************************************************)
(* C6  A late response for a superseded request never overwrites state of  *)
(* a newer selection: once every request of the page has settled, the      *)
(* displayed result, the page list and the attendance ranking belong to    *)
(* the currently selected warehouse and page.                              *)
(***************************************************************************)
\* nothing is awaited and no timer is armed
Quiescent == pending = EmptyBag /\ ~worstTimer

C6_BelongsToSelection ==
    Quiescent =>
        /\ result # Null =>
              result.warehouse = query.warehouse /\ result.page = query.page
        /\ availablePages.of # <<>> => availablePages.of = query.warehouse
        /\ attAll.n > 0 => attAll.warehouse = query.warehouse

(***************************************************************************)
(* C7  Login verification is never served from a cache: a gasVerifyLogin   *)
(* call made while no identical verification is in flight issues a new     *)
(* request, also right after an identical verification has succeeded.      *)
(***************************************************************************)
C7_LoginStep ==
    (CallStep /\ NewCall.op = "verifyLogin" /\ configured
     /\ PendingFor("verifyLogin", CkVerifyLogin(NewCall.args[1], NewCall.args[2])) = {})
    => /\ FetchStep
       /\ NewCall.issued
       /\ reqs'[Len(reqs')].op = "verifyLogin"

C7_LoginAlwaysLive == [][C7_LoginStep]_vars

\* the same verification was made twice, the second after the first succeeded,
\* and each has its own request
C7_Witness ==
    \E i, j \in 1..Len(calls) :
        /\ i < j
        /\ calls[i].op = "verifyLogin" /\ calls[j].op = "verifyLogin"
        /\ calls[i].ck = calls[j].ck
        /\ calls[i].kind = "value" /\ reqs[calls[i].req].resp = "ok"
        /\ calls[j].issued /\ calls[j].req > calls[i].req

(***************************************************************************)
(* C8  Without a configured endpoint every read fails at once with the     *)
(* configuration error, issues no request and changes no map.              *)
(***************************************************************************)
C8_Step ==
    (CallStep /\ ~configured)
    => /\ NewCall.kind = "error" /\ NewCall.why = "config"
       /\ UNCHANGED <<reqs, cache, inflight>>

C8_Untouched ==
    ~configured =>
        /\ reqs = <<>>
        /\ \A op \in CachedOps : cache[op] = EmptyMap
        /\ \A op \in Ops : inflight[op] = EmptyMap

C8_NoEndpoint == [][C8_Step]_vars /\ []C8_Untouched

\* calls were made without an endpoint
C8_Witness ==
    /\ ~configured
    /\ Len(calls) >= 2
    /\ \A i \in 1..Len(calls) : calls[i].kind = "error"

(***************************************************************************)
(* C9  Original statement: two calls of one read whose parameters differ   *)
(* only in letter case or in leading/trailing whitespace use the same      *)
(* cache key.                                                              *)
(***************************************************************************)
SameNormalized(a, b) ==
    /\ Len(a) = Len(b)
    /\ \A k \in 1..Len(a) : Normalized(a[k]) = Normalized(b[k])

C9_Original ==
    \A i, j \in 1..Len(calls) :
        (/\ calls[i].op = calls[j].op
         /\ calls[i].ck # <<>> /\ calls[j].ck # <<>>
         /\ SameNormalized(calls[i].args, calls[j].args))
        => calls[i].ck = calls[j].ck

(* C9 as amended: only the name parameters (name filter of the query, name *)
(* of the lookup, name and birthday of the login) are trimmed in the key;  *)
(* warehouse and sheet enter it verbatim and nothing is case-normalized.   *)
(* Two calls whose parameters differ only in leading/trailing whitespace   *)
(* of a name parameter use the same cache entry and in-flight request.     *)
\* is parameter k of op a name parameter?
IsNameParam(op, k) ==
    \/ op \in {"findWarehouseByName", "verifyLogin"}
    \/ op = "querySheet" /\ k = 3

SameUpToNameTrim(op, a, b) ==
    /\ Len(a) = Len(b)
    /\ \A k \in 1..Len(a) :
          IF IsNameParam(op, k) THEN Trim(a[k]) = Trim(b[k]) ELSE a[k] = b[k]

C9_KeyOfCall ==
    \A i \in 1..Len(calls) :
        calls[i].ck # <<>> => calls[i].ck = CkOf(calls[i].op, calls[i].args)

C9_SameKey ==
    \A i, j \in 1..Len(calls) :
        (/\ calls[i].op = calls[j].op
         /\ calls[i].ck # <<>> /\ calls[j].ck # <<>>
         /\ SameUpToNameTrim(calls[i].op, calls[i].args, calls[j].args))
        => calls[i].ck = calls[j].ck

C9_SharedRequest ==
    (CallStep /\ NewCall.ck # <<>>)
    => \A i \in 1..Len(calls) :
          (/\ calls[i].kind = "pending" /\ calls[i].op = NewCall.op
           /\ SameUpToNameTrim(NewCall.op, calls[i].args, NewCall.args))
          => NewCall.req = calls[i].req /\ reqs' = reqs

C9_TrimmedNameKey == [](C9_KeyOfCall /\ C9_SameKey) /\ [][C9_SharedRequest]_vars

\* a query with name filter "n " has joined the request of the query "n"
C9_Witness ==
    \E i, j \in 1..Len(calls) :
        /\ i # j
        /\ calls[i].op = "querySheet" /\ calls[j].op = "querySheet"
        /\ calls[i].args # calls[j].args
        /\ calls[i].issued /\ ~calls[j].issued
        /\ calls[j].req = calls[i].req

(***************************************************************************)
(* C10  No automatic retry.  A fetch is issued only by the step of a call, *)
(* at most one per call, by that call; so after a fetch has failed nothing *)
(* is requested for its key until some caller calls again.                 *)
(***************************************************************************)
C10_Step ==
    /\ Len(reqs') >= Len(reqs)
    /\ Len(reqs') > Len(reqs)
       => /\ CallStep
          /\ FetchStep
          /\ NewCall.issued
          /\ reqs'[Len(reqs')].by = Len(calls')
    /\ \A r \in 1..Len(reqs) :
          (SettleStep(r) /\ reqs'[r].state = "rejected")
          => PendingFor(reqs[r].op, reqs[r].ck)' = {}

C10_NoRetry == [][C10_Step]_vars

\* a fetch failed and nothing is outstanding for its key
C10_Witness ==
    /\ Len(reqs) = 1
    /\ reqs[1].state = "rejected"
    /\ Len(calls) = 1
    /\ calls[1].kind = "error"
    /\ PendingFor(reqs[1].op, reqs[1].ck) = {}

(***************************************************************************)
(* Vocabulary of the row summary                                           *)
(***************************************************************************)
\* this step is a turn of the loop of calcAttendance / of doQuery on a cell
\* of a date column whose header is not blank
CalcTurn == pc = "calc" /\ ci' = ci + 1 /\ ~cell'.skip
QueryTurn == pc = "query" /\ ci' = ci + 1 /\ ~cell'.skip

\* the turn counts its cell as expected / as attended
CountsExpected ==
    \/ CalcTurn /\ shouldDays' = shouldDays + 1
    \/ QueryTurn /\ expected' = expected + 1
CountsAttended ==
    \/ CalcTurn /\ actDays' = actDays + 1
    \/ QueryTurn /\ attended' = attended + 1

\* the should-attend test as the claim words it
EmptyOrSomeTokenKept(raw, exclude) ==
    LET toks == tokenizeCell(raw) IN
    toks = <<>> \/ \E k \in 1..Len(toks) : toks[k] \notin exclude

(***************************************************************************)
(* C11  Should-attend test: a date cell counts toward expected if it is    *)
(* empty or if at least one of its tokens is not in the exclusion set; it  *)
(* is left out only when it is non-empty and every token is excluded.      *)
(***************************************************************************)
C11_ShouldAttend ==
    [][/\ QueryTurn =>
            (expected' = expected + 1
               <=> EmptyOrSomeTokenKept(cell'.text, buildExcludeForAttRateSet))
       /\ CalcTurn =>
            (shouldDays' = shouldDays + 1
               <=> EmptyOrSomeTokenKept(cell'.text, buildExcludeSet))]_vars

(***************************************************************************)
(* C12  Auto-attend: a cell that is counted as expected and that holds a   *)
(* token of EXCLUDE_FROM_ABSENCE, or is a single token of ASCII letters    *)
(* and digits, is counted as attended whatever att[ci] is.                 *)
(***************************************************************************)
C12_AutoAttend ==
    [][(CountsExpected /\ isAutoAttendCell(cell'.text, buildExcludeFromAbsSet))
         => CountsAttended]_vars

(***************************************************************************)
(* C13  Actual-attend fallback: a cell that is counted as expected and     *)
(* does not pass the auto-attend test is counted as attended if and only   *)
(* if the row carries a non-empty att array and att[ci] is truthy.         *)
(***************************************************************************)
C13_Fallback ==
    [][(CountsExpected /\ ~isAutoAttendCell(cell'.text, buildExcludeFromAbsSet))
         => (CountsAttended <=> (rowAtt = "present" /\ cell'.att # 0))]_vars

\* doQuery has summarized rows with and without the flag set, on cells that
\* are not auto-attend: 9:00 with att[ci] = 1 attended, 加班 with 0 not
C13_Witness ==
    /\ pc = "done"
    /\ rowAtt = "present"
    /\ ~rowDateCols
    /\ cell # Null
    /\ cell.text = <<"jia1", "ban">> /\ cell.att = 0 /\ ~cell.skip
    /\ rowAttendance.expected = 2
    /\ rowAttendance.attended = 1

(***************************************************************************)
(* C18  The status of a summary is determined by its counts: normal iff    *)
(* 10*attended >= 9*expected with expected > 0; low iff 3*expected <=      *)
(* 4*attended and 10*attended < 9*expected; abnormal otherwise, so a       *)
(* summary with expected = 0 is abnormal.                                  *)
(***************************************************************************)
StatusOfCounts(a, e) ==
    IF e > 0 /\ 10 * a >= 9 * e THEN "normal"
    ELSE IF e > 0 /\ 3 * e <= 4 * a /\ 10 * a < 9 * e THEN "low"
    ELSE "abnormal"

C18_StatusFromCounts ==
    rowAttendance # Null =>
        rowAttendance.status = StatusOfCounts(rowAttendance.attended, rowAttendance.expected)

\* a row of ten expected days of which nine are attended is normal
C18_Witness ==
    /\ rowAttendance # Null
    /\ rowAttendance.expected = 10
    /\ rowAttendance.attended = 9
    /\ rowAttendance.status = "normal"

(***************************************************************************)
(* Vocabulary of the sheet                                                 *)
(***************************************************************************)
\* the raw rows of the payload that carry a name, and the date columns the
\* payload has (given, or inferred from headersISO)
RawRowsOf(nm) == {i \in 1..Len(payload.rows) : Trim(payload.rows[i].v[1]) = nm}
DateColumns == SeqToSet(effectiveDateCols(payload))
IdentityOf(k) == DateIdentity(payload.headers, payload.headersISO, k)

RawShould(i, k) == isShouldAttendCell(payload.rows[i].v[k], buildExcludeForAttRateSet)
RawAttended(i, k) ==
    /\ RawShould(i, k)
    /\ isActualAttendCell(HasAtt(payload.rows[i].att), AttAt(payload.rows[i].att, k),
                          payload.rows[i].v[k], buildExcludeFromAbsSet)

\* the dates an employee should attend / attended in some row, among columns
ShouldDates(nm, cols) == {IdentityOf(k) : k \in {c \in cols : \E i \in RawRowsOf(nm) : RawShould(i, c)}}
AttendedDates(nm, cols) == {IdentityOf(k) : k \in {c \in cols : \E i \in RawRowsOf(nm) : RawAttended(i, c)}}

\* every AttendanceSummary the page holds
Summaries ==
    {gasRows[i].attendance : i \in 1..Len(gasRows)}
      \cup {attAllList[i].summary : i \in 1..Len(attAllList)}

(***************************************************************************)
(* C14  Cross-row dedup: in the per-employee aggregation each date         *)
(* identity is counted at most once in expected and at most once in        *)
(* attended, however many rows of the employee mark it.                    *)
(***************************************************************************)
C14_CrossRowDedup ==
    sheetPc = "ranked" =>
        \A e \in 1..Len(attAllList) :
            LET nm == attAllList[e].name IN
            /\ attAllList[e].summary.expected = Cardinality(ShouldDates(nm, DateColumns))
            /\ attAllList[e].summary.attended = Cardinality(AttendedDates(nm, DateColumns))

\* an employee with two rows that both mark 3/1 as should-attend and attended
C14_Witness ==
    /\ sheetPc = "ranked"
    /\ Len(payload.rows) = 2
    /\ \A i \in 1..2 : payload.rows[i].v[1] = <<"a">> /\ payload.rows[i].v[2] = CellCode
    /\ Len(attAllList) = 1
    /\ attAllList[1].summary.expected <= 2
    /\ attAllList[1].summary.attended >= 1

(***************************************************************************)
(* C15  Range statistics give each employee the expected and attended      *)
(* counts of the date-deduplicated per-employee aggregation restricted to  *)
(* the chosen prefix of the date columns.                                  *)
(***************************************************************************)
C15_RangeIsDedup ==
    LET prefix == SeqToSet(dateIndicesUpToEnd)
        agrees(line) ==
            /\ line.shouldDays = Cardinality(ShouldDates(line.name, prefix))
            /\ line.actDays = Cardinality(AttendedDates(line.name, prefix))
    IN sheetPc = "ranked" =>
         /\ \A l \in 1..Len(attSingleBuilt) : agrees(attSingleBuilt[l])
         /\ \A l \in 1..Len(attAllBuilt) : agrees(attAllBuilt[l])

(***************************************************************************)
(* C16  Every attendance summary has attended <= expected: the row         *)
(* summaries of the result table, the entries of the ranking and the       *)
(* lines of the range statistics; in the per-employee aggregation the      *)
(* attended dates are among the should-attend dates.                       *)
(***************************************************************************)
C16_AttendedWithinExpected ==
    /\ \A a \in Summaries : a.attended <= a.expected
    /\ \A l \in 1..Len(attSingleBuilt) : attSingleBuilt[l].actDays <= attSingleBuilt[l].shouldDays
    /\ \A l \in 1..Len(attAllBuilt) : attAllBuilt[l].actDays <= attAllBuilt[l].shouldDays
    /\ \A e \in 1..Len(attAllList) :
          /\ AttendedDates(attAllList[e].name, DateColumns) \subseteq ShouldDates(attAllList[e].name, DateColumns)
          /\ attAllList[e].summary.attended <= Cardinality(ShouldDates(attAllList[e].name, DateColumns))

\* a row whose 3/2 cell is 休 (not expected, yet auto-attend) has been
\* summarized, ranked and put in a statistic
C16_Witness ==
    /\ sheetPc = "ranked"
    /\ Len(payload.rows) = 1
    /\ payload.rows[1].v[2] = CellCode /\ payload.rows[1].v[3] = CellOff
    /\ Len(attAllList) = 1
    /\ attAllList[1].summary.expected = 1 /\ attAllList[1].summary.attended = 1
    /\ gasRows[1].attendance.expected = 1
    /\ attAllBuilt # <<>>

(***************************************************************************)
(* C17  For every computed AttendanceSummary, rate = attended / expected   *)
(* when expected > 0 and rate = 0 when expected = 0, and 0 <= rate <= 1.   *)
(***************************************************************************)
C17_RateOfCounts ==
    \A a \in Summaries :
        /\ a.rate.den > 0
        /\ 0 <= a.rate.num /\ a.rate.num <= a.rate.den
        /\ a.expected > 0 => RateEQ(a.rate, Quotient(a.attended, a.expected))
        /\ a.expected = 0 => RateEQ(a.rate, Zero)

\* the result table holds a row summary of 1 day out of 2 (rate 1/2) while
\* the ranking holds the same employee at 2 out of 2 (rate 1)
C17_Witness ==
    /\ sheetPc = "ranked"
    /\ \E i \in 1..Len(gasRows) :
          /\ gasRows[i].attendance.expected = 2 /\ gasRows[i].attendance.attended = 1
          /\ 2 * gasRows[i].attendance.rate.num = gasRows[i].attendance.rate.den
    /\ \E e \in 1..Len(attAllList) :
          /\ attAllList[e].summary.expected = 2 /\ attAllList[e].summary.attended = 2
          /\ attAllList[e].summary.rate.num = attAllList[e].summary.rate.den

(***************************************************************************)
(* C19  When the payload's dateCols is absent or empty, the date columns   *)
(* are exactly the indices whose headersISO entry is a YYYY-MM-DD date,    *)
(* and every row's summary is the one the same payload gets with dateCols  *)
(* supplied explicitly as that list.                                       *)
(***************************************************************************)
ISOColumns == Ascending({k \in 1..Len(payload.headersISO) : IsISODate(payload.headersISO[k])})
DateColsMissing == payload.dateCols = Null \/ payload.dateCols = Some(<<>>)

C19_InferredAsExplicit ==
    (sheetPc # "fetched" /\ DateColsMissing) =>
        LET explicit == QueryRows([payload EXCEPT !.dateCols = Some(ISOColumns)], sheetPage)
        IN /\ gasDateCols = ISOColumns
           /\ Len(gasRows) = Len(explicit)
           /\ \A i \in 1..Len(gasRows) :
                 /\ gasRows[i].attendance.expected = explicit[i].attendance.expected
                 /\ gasRows[i].attendance.attended = explicit[i].attendance.attended
                 /\ gasRows[i].attendance.status = explicit[i].attendance.status

(***************************************************************************)
(* C20  The per-employee list is ranked ascending by rate, ties staying in *)
(* the order in which the employees first appear in the sheet; the worst 5 *)
(* are its first min(5, n) entries and the best 5 its last min(5, n)       *)
(* entries in reverse order.                                               *)
(***************************************************************************)
FirstRowOf(nm) == CHOOSE i \in RawRowsOf(nm) : \A j \in RawRowsOf(nm) : i <= j

C20_Ranking ==
    sheetPc = "ranked" =>
        LET n == Len(attAllList)
            m == IF n < 5 THEN n ELSE 5
        IN /\ \A i, j \in 1..n :
                 i < j =>
                   /\ ~RateLT(attAllList[j].summary.rate, attAllList[i].summary.rate)
                   /\ RateEQ(attAllList[i].summary.rate, attAllList[j].summary.rate)
                        => FirstRowOf(attAllList[i].name) < FirstRowOf(attAllList[j].name)
           /\ Len(attWorst5(attAllList)) = m
           /\ \A i \in 1..m : attWorst5(attAllList)[i] = attAllList[i]
           /\ Len(attBest5(attAllList)) = m
           /\ \A i \in 1..m : attBest5(attAllList)[i] = attAllList[n + 1 - i]

\* six employees are ranked, two of them tie, and the sort moved the first
\* employee of the sheet away from the head of the list
C20_Witness ==
    /\ sheetPc = "ranked"
    /\ Len(attAllList) = 6
    /\ attAllList[1].name # Trim(payload.rows[1].v[1])
    /\ RateEQ(attAllList[1].summary.rate, attAllList[2].summary.rate)
    /\ RateLT(attAllList[1].summary.rate, attAllList[6].summary.rate)
    /\ attBest5(attAllList)[5] = attAllList[2]

(***************************************************************************)
(* C21  The date list is sorted with the ISO date as primary key: of any   *)
(* two entries that both carry an ISO date the one with the earlier ISO    *)
(* date comes first, whatever mix of entries with and without ISO date     *)
(* the sheet has.                                                          *)
(***************************************************************************)
C21_IsoAscending ==
    sheetPc # "fetched" =>
        \A i, j \in 1..Len(dateList) :
            (/\ dateList[i].iso # <<>> /\ dateList[j].iso # <<>>
             /\ localeCompare(dateList[i].iso, dateList[j].iso) < 0) => i < j

(***************************************************************************)
(* Vocabulary of the normalizer                                            *)
(***************************************************************************)
HasReturned == normOut # Null
RawRows == normInput.payload.rows
RawHeaders == normInput.payload.headers
Emitted == normOut.some

\* a cell that is empty once invisible characters and whitespace are gone
EmptyAfterStripping(text) == \A i \in 1..Len(text) : text[i] \in Invisible

\* the emitted rows are the raw rows of the indices S, in order: as many,
\* with the att array and the cells under the headers of their raw row
EmitsExactly(S) ==
    LET idx == Ascending(S) IN
    /\ Len(Emitted) = Len(idx)
    /\ \A k \in 1..Len(idx) :
          /\ Emitted[k].att = RawRows[idx[k]].att
          /\ \A c \in 1..Len(RawHeaders) :
                RowGet(Emitted[k], RawHeaders[c]) = TextAt(RawRows[idx[k]].v, c)

DecimalDigits == <<"0", "1", "2", "3", "4", "5", "6", "7", "8", "9">>

C23_RowIdentity ==
    HasReturned =>
        /\ \A k \in 1..Len(Emitted) :
              k <= 10 => Emitted[k].id = <<"gas_", DecimalDigits[k]>>
        /\ \A j, k \in 1..Len(Emitted) : j # k => Emitted[j].id # Emitted[k].id

\* a blank row stood before the row emitted as gas_0
C23_Witness ==
    /\ HasReturned
    /\ Len(RawRows) = 2
    /\ RawRows[1].v = <<<<>>, <<>>>>
    /\ RawRows[2].v = <<<<"a">>, CellCode>>
    /\ Len(Emitted) = 1
    /\ Emitted[1].id = <<"gas_", "0">>
    /\ RowGet(Emitted[1], H1) = CellCode

(***************************************************************************)
(* C24  gasPayloadToRows attaches _attendance (and with it                 *)
(* _attendanceRate) to each emitted row when attendance computation is     *)
(* enabled and the sheet name contains the schedule marker, and to no row  *)
(* when disableAttendance is set or the sheet name lacks the marker.       *)
(***************************************************************************)
AttendanceOn == ~normInput.disableAttendance /\ Includes(Trim(normInput.sheetName), P_SCHEDULE)

C24_Original ==
    HasReturned =>
        /\ AttendanceOn => \A k \in 1..Len(Emitted) : Emitted[k].attendance # Null
        /\ ~AttendanceOn => \A k \in 1..Len(Emitted) : Emitted[k].attendance = Null

\* C24 as it holds: a row gets _attendance if and only if attendance is
\* enabled, the sheet name has the marker, the payload has date columns and
\* headers, and the row brings a non-empty att array.
C24_AttachedWhenComputable ==
    HasReturned =>
        \A k \in 1..Len(Emitted) :
            Emitted[k].attendance # Null <=>
                /\ AttendanceOn
                /\ normInput.payload.dateCols \notin {Null, Some(<<>>)}
                /\ RawHeaders # <<>>
                /\ Emitted[k].att \notin {Null, Some(<<>>)}

\* of two rows of a schedule sheet with a date column, the one with an att
\* array got its summary and the one without did not
C24_Witness ==
    /\ HasReturned
    /\ AttendanceOn
    /\ normInput.payload.dateCols = Some(<<2>>)
    /\ Len(Emitted) = 2
    /\ Emitted[1].att = Some(<<0, 1>>) /\ Emitted[1].attendance # Null
    /\ Emitted[2].att = Null /\ Emitted[2].attendance = Null

(***************************************************************************)
(* Vocabulary of the leave statistics: the occurrences of a tag on a date  *)
(* label, as a set, in the cells the panel scans.                          *)
(***************************************************************************)
HasData == leaveData # Null
Panel == leaveInput.some
Entries == leaveData.some
ScannedRows == SeqToSet(LeaveStatPanel_rows(Panel))

MatrixMode == Includes(Panel.sheetName, P_SCHEDULE) /\ Panel.dateCols # <<>>
RecordMode ==
    /\ ~MatrixMode
    /\ Includes(Panel.sheetName, P_RECORD)
    /\ findDateKey(Panel.headers) # Null
    /\ findLeaveKey(Panel.headers) # Null

\* the label of a date column, and of the date cell of a record row
ColumnLabel(c) ==
    IF TextAt(Panel.headersISO, c) # <<>> THEN fmtMDFromISO(TextAt(Panel.headersISO, c))
    ELSE TextAt(Panel.headers, c)
RowLabel(r) ==
    LET ds == Trim(RowGet(r, findDateKey(Panel.headers).some))
    IN IF guessISOFromText(ds) # <<>> THEN fmtMDFromISO(guessISOFromText(ds)) ELSE ds

Occurrences ==
    IF MatrixMode
    THEN UNION {{<<tok, ColumnLabel(c)>> :
                    tok \in SeqToSet(tokenizeCell(RowGet(r, TextAt(Panel.headers, c))))} :
                 r \in ScannedRows, c \in SeqToSet(Panel.dateCols)}
    ELSE IF RecordMode
    THEN UNION {{<<tok, RowLabel(r)>> :
                    tok \in SeqToSet(tokenizeCell(RowGet(r, findLeaveKey(Panel.headers).some)))} :
                 r \in ScannedRows}
    ELSE {}

TagsFound == {o[1] : o \in Occurrences}
LabelsOn(tag) == {o[2] : o \in {p \in Occurrences : p[1] = tag}}

\* the date labels shown for an entry: the pieces of its text between 、
RECURSIVE PiecesAt(_, _)
PiecesAt(s, cur) ==
    IF s = <<>> THEN <<cur>>
    ELSE IF Head(s) = "dun" THEN <<cur>> \o PiecesAt(Tail(s), <<>>)
         ELSE PiecesAt(Tail(s), Append(cur, Head(s)))
ShownDates(entry) == PiecesAt(entry.dates, <<>>)

\* C25: the leave statistics have one entry for each tag found in the
\* scanned cells and no other, the entries are in the order of their tags,
\* and the dates of an entry are the labels of the dates on which its tag
\* occurs, each once, in order, their number being the entry's count
C25_LeaveTags ==
    HasData =>
        /\ {Entries[k].tag : k \in 1..Len(Entries)} = TagsFound
        /\ \A i, j \in 1..Len(Entries) : i # j => Entries[i].tag # Entries[j].tag
        /\ \A i, j \in 1..Len(Entries) :
              i < j => localeCompareNumeric(Entries[i].tag, Entries[j].tag) <= 0
        /\ \A k \in 1..Len(Entries) :
              LET list == ShownDates(Entries[k]) IN
              /\ SeqToSet(list) = LabelsOn(Entries[k].tag)
              /\ \A i, j \in 1..Len(list) : i # j => list[i] # list[j]
              /\ \A i, j \in 1..Len(list) :
                    i < j => localeCompareNumeric(list[i], list[j]) <= 0
              /\ Entries[k].count = Cardinality(LabelsOn(Entries[k].tag))

\* tag b is read before the other tags, on 12/1 and then on 3/1
C25_Witness ==
    /\ HasData
    /\ MatrixMode
    /\ Panel.headersISO = <<<<>>, ISO3, ISO1>>
    /\ Len(LeaveStatPanel_rows(Panel)) = 2
    /\ Len(Entries) = 3
    /\ Entries[1].tag = <<"a">>
    /\ Entries[3] = [tag |-> <<"b">>, count |-> 2,
                     dates |-> <<"3", "/", "1", "dun", "1", "2", "/", "1">>]

(***************************************************************************)
(* Vocabulary of the sheet queries of the dashboard: the reads of          *)
(* gasQuerySheet that doQuery and refreshWorstAttendance have issued and   *)
(* that are not answered yet.                                              *)
(***************************************************************************)
SheetQueries == {op \in BagToSet(pending) : op.fn \in {"doQuery", "refreshWorstAttendance"}}

DoQueriesIn(pend) == {op \in BagToSet(pend) : op.fn = "doQuery"}
DoQueryStarts == \E op \in DoQueriesIn(pending') : CopiesIn(op, pending') > CopiesIn(op, pending)

StatusAgreesWithResult ==
    /\ status = "loading" => result = Null
    /\ status = "success" => result # Null /\ result.n >= 1
    /\ status = "empty" => result # Null /\ result.n = 0
    /\ status = "error" => result = Null

\* C27: doQuery is started in a state whose status is not loading only, and
\* in every state the result is null while loading and after an error, has
\* a row at least after a success, and has no row when the status is empty
C27_QueryStateMachine ==
    /\ []StatusAgreesWithResult
    /\ [][DoQueryStarts => status # "loading"]_vars

\* after an action of the user a read of doQuery has failed and none is awaited
C27_Witness ==
    /\ status = "error"
    /\ result = Null
    /\ acts > 0
    /\ DoQueriesIn(pending) = {}

(***************************************************************************)
(* Vocabulary of the progress of a query: the selections of the user, and  *)
(* the doQuery that is awaited for a selection.                            *)
(***************************************************************************)
Selections == {<<w, p>> : w \in SeqToSet(mockWarehouses),
                          p \in SeqToSet(mockPages) \cup {P_RECORD}}
QueryIssuedFor(q) == \E op \in DoQueriesIn(pending) : <<op.warehouse, op.sheet>> = q

\* every doQuery ends: a loading status becomes success, empty or error
LoadingEnds == (status = "loading") ~> (status \in {"success", "empty", "error"})

\* the selection the user ends with is queried while it is selected
FinalSelectionQueried ==
    \A q \in Selections :
        <>[](QueryDeps(query) = q) => <>(QueryDeps(query) = q /\ QueryIssuedFor(q))

\* C28: when every read settles, every doQuery moves the status from
\* loading to success, empty or error, and a query for the warehouse and
\* page that the user has selected last is issued, also when the selection
\* was made while the status was loading
C28_QueryProgress == LoadingEnds /\ FinalSelectionQueried

(***************************************************************************)
(* Vocabulary of the cache keys: the parameters that tell two requests of  *)
(* a read apart.                                                           *)
(***************************************************************************)
KeysBuilt == keyOut # Null

\* (warehouse, sheet, trimmed nameFilter); (trimmed name, trimmed birthday)
ParamsOf(op, args) ==
    IF op = "querySheet" THEN <<args[1], args[2], Trim(args[3])>>
    ELSE <<Trim(args[1]), Trim(args[2])>>

\* C29: two calls of the same read whose parameters differ do not get the
\* same cache key, whatever characters the parameters contain
C29_KeysInjective ==
    KeysBuilt =>
        (ParamsOf(keyInput.op, keyInput.first) # ParamsOf(keyInput.op, keyInput.second)
            => keyOut.some[1] # keyOut.some[2])

(***************************************************************************)
(* Vocabulary of the two summaries of a row: the one the result of doQuery *)
(* carries, and the one the forEach of doQuery computes for the row.       *)
(***************************************************************************)
OwnSummaryOf(i) == RowSummary(gasHeaders, gasDateCols, gasRows[i], sheetPage)

\* C30: for every row of a schedule sheet that brings a non-empty att
\* array, the summary the row carries after doQuery, which calcAttendance
\* attached, is the summary doQuery's own loop computes for that row
C30_SameSummary ==
    (sheetPc # "fetched" /\ Includes(sheetPage, P_SCHEDULE)) =>
        \A i \in 1..Len(gasRows) :
            HasAtt(gasRows[i].att) => gasRows[i].attendance = OwnSummaryOf(i)

====
